---- MODULE Spec2Model ----
(***************************************************************************)
(* Model of the esplora-tapyrus indexer (src/new_index/schema.rs):         *)
(* the two-phase Indexer.update, the Store reload, and the ChainQuery      *)
(* folds over history rows with their caches.                              *)
(***************************************************************************)
EXTENDS Integers, Sequences, FiniteSets, TLC

(***************************************************************************)
(* Bounds and program constants                                            *)
(***************************************************************************)
\* number of outputs of the genesis transaction (one more than the cache threshold)
BigOutputs == 101
\* how many Indexer.update calls one behaviour starts
MaxUpdates == 3
\* how many ChainQuery calls one behaviour makes
MaxQueries == 2
\* the same two limits while a query runs row by row beside the update
MaxConcUpdates == 2
MaxConcQueries == 1
\* update calls in a run with process restarts
MaxResumeUpdates == 3
\* Mempool calls and Indexer.update calls of a run of the main loop with a mempool
MaxMempoolCalls == 2
MaxMempoolChainUpdates == 2
\* how many transactions one Mempool.update fetches
MaxBatch == 2

MIN_HISTORY_ITEMS_TO_CACHE == 100
RECENT_TXS_SIZE == 10
utxos_limit == 500

(***************************************************************************)
(* The daemon's world: scripts, transactions and a block tree              *)
(***************************************************************************)
DefaultColor == 0
Color1 == 1
NullHash == 0

\* a script_pubkey: the color prefix (DefaultColor when plain) and the underlying script
Spk(c, s) == [color_id |-> c, script |-> s]

G == 1
T1 == 2
T2 == 3
T3 == 4
T4 == 5
Txids == {G, T1, T2, T3, T4}
\* transactions that no block of the tree holds
M1 == 6
M2 == 7

OutPoint(t, v) == [txid |-> t, vout |-> v]
TxOut(v, spk) == [value |-> v, script_pubkey |-> spk]

\* Transaction: input = previous outpoints, output = txouts (vout = index - 1)
Tx(t) ==
    CASE t = G  -> [input |-> << >>,
                    output |-> [i \in 1..BigOutputs |-> TxOut(1, Spk(DefaultColor, 1))]]
      [] t = T1 -> [input |-> << OutPoint(G, 0) >>,
                    output |-> << TxOut(1, Spk(DefaultColor, 1)) >>]
      [] t = T2 -> [input |-> << OutPoint(T1, 0) >>,
                    output |-> << TxOut(1, Spk(Color1, 2)) >>]
      [] t = T3 -> [input |-> << OutPoint(G, 1) >>,
                    output |-> << TxOut(1, Spk(DefaultColor, 1)) >>]
      [] t = T4 -> [input |-> << OutPoint(T2, 0) >>,
                    output |-> << TxOut(1, Spk(DefaultColor, 2)), TxOut(1, Spk(Color1, 1)) >>]
      [] t = M1 -> [input |-> << OutPoint(G, 1) >>,
                    output |-> << TxOut(1, Spk(DefaultColor, 1)) >>]
      [] t = M2 -> [input |-> << OutPoint(G, 2) >>,
                    output |-> << TxOut(1, Spk(DefaultColor, 2)) >>]

BlkA == 1
BlkP1 == 2
BlkP2 == 3
BlkQ1 == 4
BlkQ2 == 5
BlockHashes == {BlkA, BlkP1, BlkP2, BlkQ1, BlkQ2}

\* Block: header.prev_blockhash and txdata
Block(b) ==
    CASE b = BlkA  -> [prev_blockhash |-> NullHash, txdata |-> << G >>]
      [] b = BlkP1 -> [prev_blockhash |-> BlkA,  txdata |-> << T1, T2 >>]
      [] b = BlkP2 -> [prev_blockhash |-> BlkP1, txdata |-> << T3, T4 >>]
      [] b = BlkQ1 -> [prev_blockhash |-> BlkA,  txdata |-> << >>]
      [] b = BlkQ2 -> [prev_blockhash |-> BlkQ1, txdata |-> << T1 >>]

Range(f) == {f[i] : i \in DOMAIN f}

\* SHA-256 of the script bytes: an injective code of (color prefix, script)
compute_script_hash(spk) == spk.color_id * 10 + spk.script

\* Script::split_color: the color id and the underlying script of a colored script
IsColored(spk) == spk.color_id # DefaultColor
Underlying(spk) == Spk(DefaultColor, spk.script)

AllSpks == UNION {{Tx(t).output[i].script_pubkey : i \in DOMAIN Tx(t).output} : t \in Txids}
ScriptHashes ==
    {compute_script_hash(spk) : spk \in AllSpks} \cup
    {compute_script_hash(Underlying(spk)) : spk \in AllSpks}

(***************************************************************************)
(* State                                                                   *)
(***************************************************************************)
VARIABLES
    txstore_db,           \* Store.txstore_db: one set of keys per row prefix, and the tip key t
    history_db,           \* Store.history_db: H rows, S edge rows, D markers, F
    cache_db,             \* Store.cache_db: U rows and A rows
    added_blockhashes,    \* Store.added_blockhashes
    indexed_blockhashes,  \* Store.indexed_blockhashes
    indexed_headers,      \* Store.indexed_headers: block hashes by height (HeaderList)
    light_mode,           \* Config.light_mode
    pc,                   \* position of the main thread inside Indexer.update
    tip,                  \* update's local: the daemon's best block hash
    new_headers,          \* update's local: ordered HeaderEntry list
    to_add,               \* blocks of phase 1 the fetcher has not delivered yet
    to_index,             \* blocks of phase 2 the fetcher has not delivered yet
    flush,                \* Indexer.flush
    from,                 \* Indexer.from
    result,               \* what the last update call returned: "none", "ok", "err"
    q,                    \* a client thread inside ChainQuery::utxo, row by row
    nupdates,             \* update calls started
    nqueries,             \* ChainQuery calls made
    base,                 \* history variable: the store as it was when the update in progress began
    mempool,              \* the fields of Mempool
    mlast,                \* the last Mempool call: its name, locals and outcome
    conn,                 \* one Electrum Connection: its fields, the last message and what was sent
    rpc,                  \* the threads and channels of run_server and of the Electrum RPC server
    assets,               \* the last call of compute_assets: its arguments and what came of it
    ledger,               \* confirmed transactions with colored outputs: unspent outputs, color history rows
    call,                 \* the last call of a function of util or new_index: its name, arguments, result
    stats_calls           \* the client threads inside ChainQuery::stats: position and locals

storeVars == <<txstore_db, history_db, added_blockhashes, indexed_blockhashes, indexed_headers>>
updateVars == <<pc, tip, new_headers, to_add, to_index, flush, from, result>>
queryVars == <<cache_db, q>>
countVars == <<nupdates, nqueries>>
restVars == <<light_mode, base, mempool, mlast, conn, rpc, assets, ledger, call, stats_calls>>
vars == <<storeVars, updateVars, queryVars, countVars, restVars>>

(***************************************************************************)
(* HeaderList and the daemon's header walk                                 *)
(***************************************************************************)
NoEntry == [hash |-> NullHash, height |-> -1]
HeaderEntry(h, n) == [hash |-> h, height |-> n]

\* HeaderList::header_by_blockhash: only blocks of the best chain
header_by_blockhash(headers, h) ==
    IF \E i \in DOMAIN headers : headers[i] = h
    THEN HeaderEntry(h, (CHOOSE i \in DOMAIN headers : headers[i] = h) - 1)
    ELSE NoEntry

\* HeaderList::header_by_height
header_by_height(headers, n) ==
    IF n + 1 \in DOMAIN headers THEN HeaderEntry(headers[n + 1], n) ELSE NoEntry

\* HeaderList::tip
HeaderTip(headers) == IF headers = << >> THEN NullHash ELSE headers[Len(headers)]

\* Daemon::get_new_headers: walk back from the tip until a hash of the header list
RECURSIVE get_new_headers(_, _)
get_new_headers(headers, h) ==
    IF h = NullHash \/ header_by_blockhash(headers, h) # NoEntry
    THEN << >>
    ELSE Append(get_new_headers(headers, Block(h).prev_blockhash), h)

\* HeaderList::order: heights counted from the parent of the first new header
order(headers, hashes) ==
    IF hashes = << >> THEN << >>
    ELSE LET prev == Block(hashes[1]).prev_blockhash
             new_height == IF prev = NullHash THEN 0
                           ELSE header_by_blockhash(headers, prev).height + 1
         IN [i \in DOMAIN hashes |-> HeaderEntry(hashes[i], new_height + i - 1)]

\* HeaderList::apply: roll back to the first new header's height, then append
apply(headers, entries) ==
    IF entries = << >> THEN headers
    ELSE SubSeq(headers, 1, entries[1].height) \o [i \in DOMAIN entries |-> entries[i].hash]

\* HeaderList::new: the chain that ends at the stored tip, from the B rows
RECURSIVE HeaderListNew(_, _)
HeaderListNew(headers_map, h) ==
    IF h = NullHash \/ h \notin headers_map THEN << >>
    ELSE Append(HeaderListNew(headers_map, Block(h).prev_blockhash), h)

(***************************************************************************)
(* Rows                                                                    *)
(***************************************************************************)
Funding == 0
Spending == 1

FundingInfo(t, v, c, val) ==
    [tag |-> Funding, txid |-> t, vout |-> v, color_id |-> c, value |-> val]
SpendingInfo(t, i, pt, pv, c, val) ==
    [tag |-> Spending, txid |-> t, vin |-> i, prev_txid |-> pt, prev_vout |-> pv,
     color_id |-> c, value |-> val]

\* TxHistoryRow::new
TxHistoryRow(spk, height, txinfo) ==
    [hash |-> compute_script_hash(spk), confirmed_height |-> height, txinfo |-> txinfo]

\* TxEdgeRow::new
TxEdgeRow(ft, fv, st, sv) ==
    [funding_txid |-> ft, funding_vout |-> fv, spending_txid |-> st, spending_vin |-> sv]

EmptyTxstore ==
    [T |-> {}, C |-> {}, O |-> {}, B |-> {}, X |-> {}, M |-> {}, D |-> {},
     F |-> FALSE, t |-> NullHash]
EmptyHistory == [H |-> << >>, S |-> {}, D |-> {}, F |-> FALSE]
EmptyCache == [U |-> {}, A |-> {}]

\* add_transaction: the conf row, the raw tx row and one row per output
add_transaction(t, blockhash, light) ==
    [EmptyTxstore EXCEPT
        !.C = {<<t, blockhash>>},
        !.T = IF light THEN {} ELSE {t},
        !.O = {OutPoint(t, i - 1) : i \in DOMAIN Tx(t).output}]

\* DB::write of a batch: the union of the rows, prefix by prefix
MergeTxstore(a, b) ==
    [T |-> a.T \cup b.T, C |-> a.C \cup b.C, O |-> a.O \cup b.O, B |-> a.B \cup b.B,
     X |-> a.X \cup b.X, M |-> a.M \cup b.M, D |-> a.D \cup b.D, F |-> a.F, t |-> a.t]

RECURSIVE MergeAllTxstore(_)
MergeAllTxstore(rowsets) ==
    IF rowsets = << >> THEN EmptyTxstore
    ELSE MergeTxstore(MergeAllTxstore(Tail(rowsets)), Head(rowsets))

\* add_blocks that leaves out the done marker of the block
add_block_without_done(b, light) ==
    LET txrows == MergeAllTxstore([i \in DOMAIN Block(b).txdata |->
                                     add_transaction(Block(b).txdata[i], b, light)])
    IN [txrows EXCEPT
          !.X = IF light THEN {} ELSE {b},
          !.M = IF light THEN {} ELSE {b},
          !.B = {b}]

\* add_blocks: rows of one block
add_block(b, light) ==
    LET txrows == MergeAllTxstore([i \in DOMAIN Block(b).txdata |->
                                     add_transaction(Block(b).txdata[i], b, light)])
    IN [txrows EXCEPT
          !.X = IF light THEN {} ELSE {b},
          !.M = IF light THEN {} ELSE {b},
          !.B = {b},
          !.D = {b}]

add_blocks(blocks, light) ==
    MergeAllTxstore([i \in DOMAIN blocks |-> add_block(blocks[i].hash, light)])

\* get_previous_txos: every previous outpoint of the blocks
get_previous_txos(blocks) ==
    UNION {UNION {Range(Tx(t).input) : t \in Range(Block(blocks[i].hash).txdata)} :
           i \in DOMAIN blocks}

\* lookup_txo: the O row of the outpoint, if any
lookup_txo(db, outpoint) == outpoint \in db.O
TxoOf(outpoint) == Tx(outpoint.txid).output[outpoint.vout + 1]

\* index_transaction: the funding rows of the outputs, in push order: one row under the hash
\* of each output's script, and one more under the underlying script of each colored output
FundingRows(t, height) ==
    LET script_rows ==
            [i \in DOMAIN Tx(t).output |->
                TxHistoryRow(Tx(t).output[i].script_pubkey, height,
                             FundingInfo(t, i - 1, Tx(t).output[i].script_pubkey.color_id,
                                         Tx(t).output[i].value))]
        colored == SelectSeq(script_rows, LAMBDA r : r.txinfo.color_id # DefaultColor)
        underlying_rows ==
            [j \in DOMAIN colored |->
                TxHistoryRow(Underlying(Tx(t).output[colored[j].txinfo.vout + 1].script_pubkey),
                             height, colored[j].txinfo)]
    IN script_rows \o underlying_rows

\* index_transaction: the spending row of each input, under the previous output's script
SpendingRows(t, height) ==
    [i \in DOMAIN Tx(t).input |->
        LET prev == Tx(t).input[i]
            prev_txo == TxoOf(prev)
        IN TxHistoryRow(prev_txo.script_pubkey, height,
                        SpendingInfo(t, i - 1, prev.txid, prev.vout,
                                     prev_txo.script_pubkey.color_id, prev_txo.value))]

\* index_transaction: the edge row of each input
EdgeRows(t) ==
    {TxEdgeRow(Tx(t).input[i].txid, Tx(t).input[i].vout, t, i - 1) : i \in DOMAIN Tx(t).input}

index_transaction(t, height) ==
    [H |-> FundingRows(t, height) \o SpendingRows(t, height), S |-> EdgeRows(t), D |-> {}]

NoRows == [H |-> << >>, S |-> {}, D |-> {}]
ConcatRows(a, b) == [H |-> a.H \o b.H, S |-> a.S \cup b.S, D |-> a.D \cup b.D]

RECURSIVE IndexTxs(_, _)
IndexTxs(txdata, height) ==
    IF txdata = << >> THEN NoRows
    ELSE ConcatRows(index_transaction(Head(txdata), height), IndexTxs(Tail(txdata), height))

\* index_blocks that leaves out the done markers
RECURSIVE index_blocks_without_done(_)
index_blocks_without_done(blocks) ==
    IF blocks = << >> THEN NoRows
    ELSE ConcatRows(IndexTxs(Block(Head(blocks).hash).txdata, Head(blocks).height),
                    index_blocks_without_done(Tail(blocks)))

\* index_blocks: the rows of every transaction of the blocks, and the done markers
RECURSIVE index_blocks(_)
index_blocks(blocks) ==
    IF blocks = << >> THEN NoRows
    ELSE ConcatRows(
            ConcatRows(IndexTxs(Block(Head(blocks).hash).txdata, Head(blocks).height),
                       [NoRows EXCEPT !.D = {Head(blocks).hash}]),
            index_blocks(Tail(blocks)))

SelectSeqNotIn(seq, set) == SelectSeq(seq, LAMBDA e : e.hash \notin set)

\* Indexer::headers_to_add
headers_to_add(entries, added) == SelectSeqNotIn(entries, added)
\* headers_to_index that filters by the added blocks, as headers_to_add does
headers_to_index_by_added(entries, indexed) == SelectSeqNotIn(entries, added_blockhashes)
\* Indexer::headers_to_index
headers_to_index(entries, indexed) == SelectSeqNotIn(entries, indexed)

(***************************************************************************)
(* ChainQuery: scans and folds                                             *)
(***************************************************************************)
\* position of the entry inside the transaction: vout of a funding, vin of a spending
InfoIndex(txinfo) == IF txinfo.tag = Funding THEN txinfo.vout ELSE txinfo.vin

\* byte order of two H rows of one script hash: big-endian height, then the serialized
\* txinfo (variant tag, txid, index)
RowLess(a, b) ==
    \/ a.confirmed_height < b.confirmed_height
    \/ /\ a.confirmed_height = b.confirmed_height
       /\ \/ a.txinfo.tag < b.txinfo.tag
          \/ /\ a.txinfo.tag = b.txinfo.tag
             /\ \/ a.txinfo.txid < b.txinfo.txid
                \/ /\ a.txinfo.txid = b.txinfo.txid
                   /\ InfoIndex(a.txinfo) < InfoIndex(b.txinfo)

\* byte order of the keys of two H rows: the script hash, then RowLess
KeyLess(a, b) == a.hash < b.hash \/ (a.hash = b.hash /\ RowLess(a, b))

\* ChainQuery::history_iter_scan: the H rows of the script hash from start_height on, in key order
history_iter_scan(hdb, scripthash, start_height) ==
    SelectSeq(hdb.H, LAMBDA r : r.hash = scripthash /\ r.confirmed_height >= start_height)

\* TxHistoryInfo::get_funded_outpoint
get_funded_outpoint(txinfo) ==
    IF txinfo.tag = Funding THEN OutPoint(txinfo.txid, txinfo.vout)
    ELSE OutPoint(txinfo.prev_txid, txinfo.prev_vout)

\* ChainQuery::tx_confirming_block: the first conf row of the txid whose block is in the header list
tx_confirming_block(tdb, headers, txid) ==
    LET confs == {c \in tdb.C : c[1] = txid /\ header_by_blockhash(headers, c[2]) # NoEntry}
    IN IF confs = {} THEN NoEntry
       ELSE LET first == CHOOSE c \in confs : \A d \in confs : c[2] <= d[2]
            IN header_by_blockhash(headers, first[2])

\* HashMap insert and remove on a UtxoMap (a function from outpoints)
MapInsert(m, k, v) == (k :> v) @@ m
MapRemove(m, k) == [x \in DOMAIN m \ {k} |-> m[x]]
EmptyMap == << >>

\* one iteration of the loop of utxo_delta on a row that passed the confirmation filter
UtxoStep(acc, row, blockid, limit) ==
    LET utxos == IF row.txinfo.tag = Funding
                 THEN MapInsert(acc.utxos, get_funded_outpoint(row.txinfo),
                                [blockid |-> blockid, color_id |-> row.txinfo.color_id,
                                 value |-> row.txinfo.value])
                 ELSE MapRemove(acc.utxos, get_funded_outpoint(row.txinfo))
    IN [utxos |-> utxos,
        lastblock |-> blockid.hash,
        processed_items |-> acc.processed_items + 1,
        too_popular |-> Cardinality(DOMAIN utxos) > limit]

\* ChainQuery::utxo_delta: the loop over rows[lo..hi] in order (split in halves), skipping
\* the rows whose transaction has no confirming block (conf: txid -> tx_confirming_block)
\* and bailing out once the working set exceeds the limit
RECURSIVE UtxoLoop(_, _, _, _, _, _)
UtxoLoop(conf, rows, lo, hi, acc, limit) ==
    IF lo > hi \/ acc.too_popular THEN acc
    ELSE IF lo = hi
    THEN LET blockid == conf[rows[lo].txinfo.txid]
         IN IF blockid = NoEntry THEN acc ELSE UtxoStep(acc, rows[lo], blockid, limit)
    ELSE LET mid == (lo + hi) \div 2
         IN UtxoLoop(conf, rows, mid + 1, hi, UtxoLoop(conf, rows, lo, mid, acc, limit), limit)

utxo_delta(tdb, hdb, headers, scripthash, init_utxos, start_height, limit) ==
    LET rows == history_iter_scan(hdb, scripthash, start_height)
        conf == [t \in Txids |-> tx_confirming_block(tdb, headers, t)]
    IN UtxoLoop(conf, rows, 1, Len(rows),
                [utxos |-> init_utxos, lastblock |-> NullHash, processed_items |-> 0,
                 too_popular |-> FALSE],
                limit)

\* make_utxo_cache: keep the height of the block id only
make_utxo_cache(utxos) ==
    [o \in DOMAIN utxos |-> [height |-> utxos[o].blockid.height,
                             color_id |-> utxos[o].color_id, value |-> utxos[o].value]]

\* from_utxo_cache: the block id is looked up again by height; a missing header panics
from_utxo_cache(utxos_cache, headers) ==
    [o \in DOMAIN utxos_cache |-> [blockid |-> header_by_height(headers, utxos_cache[o].height),
                                   color_id |-> utxos_cache[o].color_id,
                                   value |-> utxos_cache[o].value]]
FromUtxoCachePanics(utxos_cache, headers) ==
    \E o \in DOMAIN utxos_cache : header_by_height(headers, utxos_cache[o].height) = NoEntry

\* UtxoCacheRow::new
UtxoCacheRow(scripthash, utxos, blockhash) ==
    [scripthash |-> scripthash, utxos_cache |-> make_utxo_cache(utxos), blockhash |-> blockhash]

\* cache_db.write of a U row: a put on its key
PutUtxoCache(cdb, row) ==
    [cdb EXCEPT !.U = {r \in cdb.U : r.scripthash # row.scripthash} \cup {row}]

\* the Utxo objects of a UtxoMap
Utxos(utxos) ==
    {[txid |-> o.txid, vout |-> o.vout, confirmed |-> utxos[o].blockid,
      color_id |-> utxos[o].color_id, value |-> utxos[o].value] : o \in DOMAIN utxos}

\* ChainQuery::utxo: load the cache when its block is in the best chain, fold the rows since,
\* save the cache, return the utxos. status is "ok", "TooPopular" or "panic".
utxo(tdb, hdb, cdb, headers, scripthash, limit) ==
    LET cached == {r \in cdb.U : r.scripthash = scripthash /\
                                 header_by_blockhash(headers, r.blockhash) # NoEntry}
        had_cache == cached # {}
        row == CHOOSE r \in cached : TRUE
    IN IF had_cache /\ FromUtxoCachePanics(row.utxos_cache, headers)
       THEN [status |-> "panic", utxos |-> {}, cache_db |-> cdb]
       ELSE LET delta == IF had_cache
                         THEN utxo_delta(tdb, hdb, headers, scripthash,
                                         from_utxo_cache(row.utxos_cache, headers),
                                         header_by_blockhash(headers, row.blockhash).height + 1,
                                         limit)
                         ELSE utxo_delta(tdb, hdb, headers, scripthash, EmptyMap, 0, limit)
            IN IF delta.too_popular
               THEN [status |-> "TooPopular", utxos |-> {}, cache_db |-> cdb]
               ELSE [status |-> "ok",
                     utxos |-> Utxos(delta.utxos),
                     cache_db |->
                         IF /\ delta.lastblock # NullHash
                            /\ (had_cache \/ delta.processed_items > MIN_HISTORY_ITEMS_TO_CACHE)
                         THEN PutUtxoCache(cdb, UtxoCacheRow(scripthash, delta.utxos,
                                                             delta.lastblock))
                         ELSE cdb]

\* ScriptStats::default
DefaultStats ==
    [tx_count |-> 0, funded_txo_count |-> 0, spent_txo_count |-> 0,
     funded_txo_sum |-> 0, spent_txo_sum |-> 0]

\* _update_stats: count the transaction once per seen set, and the funded or spent output
UpdateStat(stat, seen_txids, entry) ==
    LET counted == [stat EXCEPT !.tx_count = IF entry.txid \in seen_txids THEN @ ELSE @ + 1]
    IN IF entry.tag = Funding
       THEN [counted EXCEPT !.funded_txo_count = @ + 1, !.funded_txo_sum = @ + entry.value]
       ELSE [counted EXCEPT !.spent_txo_count = @ + 1, !.spent_txo_sum = @ + entry.value]

\* one iteration of the loop of update_stats; blockhash is NullHash for a mempool entry
StatsStep(acc, entry, blockhash) ==
    LET color_id == entry.color_id
        known == IF color_id \in DOMAIN acc.seen THEN acc.seen[color_id] ELSE {}
        seen_txids == IF acc.lastblock # blockhash THEN {} ELSE known
        stat == IF color_id \in DOMAIN acc.stats THEN acc.stats[color_id] ELSE DefaultStats
    IN [stats |-> (color_id :> UpdateStat(stat, seen_txids, entry)) @@ acc.stats,
        seen |-> (color_id :> (seen_txids \cup {entry.txid})) @@ acc.seen,
        lastblock |-> blockhash]

\* update_stats: the loop over histories[lo..hi] in order (split in halves); the test of
\* lastblock makes TLC evaluate the accumulator of the left half before the right half
RECURSIVE StatsLoop(_, _, _, _)
StatsLoop(histories, lo, hi, acc) ==
    IF lo > hi \/ acc.lastblock \notin BlockHashes \cup {NullHash} THEN acc
    ELSE IF lo = hi THEN StatsStep(acc, histories[lo].txinfo, histories[lo].blockhash)
    ELSE LET mid == (lo + hi) \div 2
         IN StatsLoop(histories, mid + 1, hi, StatsLoop(histories, lo, mid, acc))

update_stats(init_stats, histories) ==
    LET acc == StatsLoop(histories, 1, Len(histories),
                         [stats |-> init_stats, seen |-> << >>, lastblock |-> NullHash])
    IN [stats |-> acc.stats, lastblock |-> acc.lastblock]

\* ChainQuery::stats_delta: the confirmed rows from start_height on, folded into init_stats
stats_delta(tdb, hdb, headers, scripthash, init_stats, start_height) ==
    LET rows == history_iter_scan(hdb, scripthash, start_height)
        conf == [t \in Txids |-> tx_confirming_block(tdb, headers, t)]
        confirmed == SelectSeq(rows, LAMBDA r : conf[r.txinfo.txid] # NoEntry)
    IN update_stats(init_stats,
                    [i \in DOMAIN confirmed |->
                        [txinfo |-> confirmed[i].txinfo,
                         blockhash |-> conf[confirmed[i].txinfo.txid].hash]])

\* ChainQuery::txo_count
RECURSIVE SumTxo(_, _)
SumTxo(stats, colors) ==
    IF colors = {} THEN 0
    ELSE LET c == CHOOSE x \in colors : TRUE
         IN stats[c].funded_txo_count + stats[c].spent_txo_count + SumTxo(stats, colors \ {c})
txo_count(stats) == SumTxo(stats, DOMAIN stats)

\* StatsCacheRow::new
StatsCacheRow(scripthash, color_id, stat, blockhash) ==
    [scripthash |-> scripthash, color_id |-> color_id, stats |-> stat, blockhash |-> blockhash]

\* cache_db.write of one A row per color: a put on each key
PutStatsCache(cdb, scripthash, stats, blockhash) ==
    [cdb EXCEPT !.A = {r \in cdb.A : r.scripthash # scripthash \/ r.color_id \notin DOMAIN stats}
                      \cup {StatsCacheRow(scripthash, c, stats[c], blockhash) : c \in DOMAIN stats}]

\* ChainQuery::stats_iter_scan: the A rows of the script hash
stats_iter_scan(cdb, scripthash) == {r \in cdb.A : r.scripthash = scripthash}

\* ChainQuery::stats: the cached statistics of every color; blockheight is the height of the
\* block hash of the last row scanned (none when that hash is not in the best chain); the
\* delta is folded into the cached statistics from blockheight + 1, or from 0 when none
stats(tdb, hdb, cdb, headers, scripthash) ==
    LET rows == stats_iter_scan(cdb, scripthash)
        cached == [c \in {r.color_id : r \in rows} |->
                      (CHOOSE r \in rows : r.color_id = c).stats]
        last == CHOOSE r \in rows : \A x \in rows : x.color_id <= r.color_id
        blockheight == IF rows = {} THEN NoEntry.height
                       ELSE header_by_blockhash(headers, last.blockhash).height
        delta == IF blockheight # NoEntry.height
                 THEN stats_delta(tdb, hdb, headers, scripthash, cached, blockheight + 1)
                 ELSE stats_delta(tdb, hdb, headers, scripthash, cached, 0)
    IN [stats |-> delta.stats,
        cache_db |-> IF /\ delta.lastblock # NullHash
                        /\ txo_count(delta.stats) > MIN_HISTORY_ITEMS_TO_CACHE
                     THEN PutStatsCache(cdb, scripthash, delta.stats, delta.lastblock)
                     ELSE cdb]

(***************************************************************************)
(* Indexer.update, step by step                                            *)
(***************************************************************************)
\* no utxo call is in progress
QIdle ==
    [pc |-> "idle", scripthash |-> 0, had_cache |-> FALSE, start_height |-> 0,
     rows |-> << >>, pos |-> 1,
     acc |-> [utxos |-> << >>, lastblock |-> NullHash, processed_items |-> 0,
              too_popular |-> FALSE],
     status |-> "none", utxos |-> {}, headers |-> << >>, refs |-> {}]

\* Mempool::new
EmptyMempool ==
    [txstore |-> {}, feeinfo |-> {}, history |-> [S \in ScriptHashes |-> << >>],
     colors |-> << >>, edges |-> {}, recent |-> << >>, overviews |-> {},
     backlog_stats |-> [count |-> 0, total_fee |-> 0]]

\* no Mempool call has been made
NoCall ==
    [op |-> "none", result |-> "none", n |-> 0, old_txids |-> {}, new_txids |-> {},
     to_add |-> << >>, to_remove |-> {}]

\* no update has begun
\* no client has connected yet
NoConnection ==
    [state |-> "none", enable_open_assets |-> FALSE, last_header_entry |-> NoEntry,
     status_hashes |-> << >>, n |-> 0,
     msg |-> [form |-> "none", method |-> "", params |-> << >>, id |-> 0], sent |-> {}]

\* SyncChannel::new(10) of a Connection
ChannelCapacity == 10
MaxBadLines == 1
MaxPeriodic == 1
MaxMainUpdates == 2
Clients == {1, 2}

\* run_server after ElectrumRPC::start: the main loop runs, the rpc thread accepts, no peer
\* has connected
RpcStart ==
    [main |-> "loop", rest |-> "running", version |-> 0,
     notification |-> << >>, acceptor |-> << >>, server |-> "accepting",
     senders |-> << >>, todo |-> << >>, threads |-> {},
     peer |-> [c \in Clients |->
                  [thread |-> "none", reader |-> "none", pending |-> "none", chan |-> << >>,
                   bad |-> 0, status |-> -1]]]

\* Option<OpenAsset>: None, or an asset id and a quantity
None == [asset_id |-> 0, asset_quantity |-> 0]
OpenAsset(id, quantity) == [asset_id |-> id, asset_quantity |-> quantity]

\* compute_assets has not been called
NoAssets ==
    [prev_outs |-> << >>, marker_output_index |-> 0, outputs |-> 0, quantities |-> << >>,
     status |-> "none", result |-> << >>]

\* no function has been called
NoFunction == [fn |-> "none", args |-> << >>, result |-> << >>]

\* no transaction has been confirmed
NoLedger == [n |-> 0, unspent |-> {}, rows |-> << >>]

\* no thread is inside ChainQuery::stats
NoStatsCall ==
    [pc |-> "idle", scripthash |-> 0, newstats |-> << >>, todo |-> {}, scratch |-> << >>]

NoBase ==
    [crashed |-> FALSE, at |-> "idle", tip |-> NullHash, txstore |-> EmptyTxstore,
     history |-> EmptyHistory, headers |-> << >>, added |-> {}, indexed |-> {}]

Init ==
    /\ txstore_db = EmptyTxstore
    /\ history_db = EmptyHistory
    /\ cache_db = EmptyCache
    /\ added_blockhashes = {}
    /\ indexed_blockhashes = {}
    /\ indexed_headers = << >>
    /\ light_mode \in BOOLEAN
    /\ pc = "idle"
    /\ tip = NullHash
    /\ new_headers = << >>
    /\ to_add = << >>
    /\ to_index = << >>
    /\ flush = "Disable"
    /\ from = "BlkFiles"
    /\ result = "none"
    /\ q = QIdle
    /\ nupdates = 0
    /\ nqueries = 0
    /\ base = NoBase
    /\ mempool = EmptyMempool
    /\ mlast = NoCall
    /\ conn = NoConnection
    /\ rpc = RpcStart
    /\ assets = NoAssets
    /\ ledger = NoLedger
    /\ call = NoFunction
    /\ stats_calls = [c \in Clients |-> NoStatsCall]

\* update: getbestblockhash answers h; get_new_headers; headers_to_add
UpdateStartBody(h) ==
    /\ pc = "idle"
    /\ tip' = h
    /\ new_headers' = order(indexed_headers, get_new_headers(indexed_headers, h))
    /\ to_add' = headers_to_add(new_headers', added_blockhashes)
    /\ to_index' = << >>
    /\ pc' = "fetch_add"
    /\ result' = "none"
    /\ UNCHANGED <<storeVars, flush, from, light_mode, queryVars>>

UpdateStart(h) == UpdateStartBody(h) /\ UNCHANGED <<countVars, base, mempool, mlast, conn, rpc, assets, ledger, call, stats_calls>>

\* an update call, counted
CountedUpdateStart(h) ==
    /\ nupdates < MaxUpdates
    /\ nupdates' = nupdates + 1
    /\ UpdateStartBody(h)
    /\ UNCHANGED <<nqueries, base, mempool, mlast, conn, rpc, assets, ledger, call, stats_calls>>

\* update: reconnect, getbestblockhash or get_new_headers fails
DaemonError ==
    /\ pc = "idle"
    /\ result' = "err"
    /\ UNCHANGED <<storeVars, pc, tip, new_headers, to_add, to_index, flush, from, restVars>>
    /\ UNCHANGED <<queryVars, countVars>>

\* update: start_fetcher succeeds for the phase
FetchStart ==
    /\ pc \in {"fetch_add", "fetch_index"}
    /\ pc' = IF pc = "fetch_add" THEN "add" ELSE "index"
    /\ UNCHANGED <<storeVars, tip, new_headers, to_add, to_index, flush, from, result, restVars>>
    /\ UNCHANGED <<queryVars, countVars>>

\* update: start_fetcher fails, the update returns the error
FetchError ==
    /\ pc \in {"fetch_add", "fetch_index"}
    /\ pc' = "idle"
    /\ result' = "err"
    /\ UNCHANGED <<storeVars, tip, new_headers, to_add, to_index, flush, from, restVars>>
    /\ UNCHANGED <<queryVars, countVars>>

\* Indexer::add on the next batch of k blocks
Add(k) ==
    /\ pc = "add"
    /\ k \in 1..Len(to_add)
    /\ LET blocks == SubSeq(to_add, 1, k)
       IN /\ txstore_db' = MergeTxstore(txstore_db, add_blocks(blocks, light_mode))
          /\ added_blockhashes' = added_blockhashes \cup {blocks[i].hash : i \in DOMAIN blocks}
    /\ to_add' = SubSeq(to_add, k + 1, Len(to_add))
    /\ UNCHANGED <<history_db, indexed_blockhashes, indexed_headers, pc, tip, new_headers,
                   to_index, flush, from, result, restVars>>
    /\ UNCHANGED <<queryVars, countVars>>

\* update: phase 1 is over; start_auto_compactions(txstore); headers_to_index
AddDone ==
    /\ pc = "add"
    /\ to_add = << >>
    /\ txstore_db' = [txstore_db EXCEPT !.F = TRUE]
    /\ to_index' = headers_to_index(new_headers, indexed_blockhashes)
    /\ pc' = "fetch_index"
    /\ UNCHANGED <<history_db, added_blockhashes, indexed_blockhashes, indexed_headers, tip,
                   new_headers, to_add, flush, from, result, restVars>>
    /\ UNCHANGED <<queryVars, countVars>>

\* Indexer::index panics on a missing previous output or a block that was not added
IndexPanics(blocks) ==
    \/ \E o \in get_previous_txos(blocks) : ~lookup_txo(txstore_db, o)
    \/ \E i \in DOMAIN blocks : blocks[i].hash \notin added_blockhashes

\* DB::write of history rows: H keys stay in byte order, a key that exists is overwritten
MergeHistory(db, rows) ==
    [H |-> SortSeq(db.H \o SelectSeq(rows.H, LAMBDA r : \A i \in DOMAIN db.H : db.H[i] # r),
                   KeyLess),
     S |-> db.S \cup rows.S, D |-> db.D \cup rows.D, F |-> db.F]

\* Indexer::index on the next batch of k blocks
Index(k) ==
    /\ pc = "index"
    /\ k \in 1..Len(to_index)
    /\ LET blocks == SubSeq(to_index, 1, k)
       IN IF IndexPanics(blocks)
          THEN /\ pc' = "panicked"
               /\ UNCHANGED <<history_db, to_index>>
          ELSE /\ history_db' = MergeHistory(history_db, index_blocks(blocks))
               /\ to_index' = SubSeq(to_index, k + 1, Len(to_index))
               /\ pc' = pc
    /\ UNCHANGED <<txstore_db, added_blockhashes, indexed_blockhashes, indexed_headers, tip,
                   new_headers, to_add, flush, from, result, restVars>>
    /\ UNCHANGED <<queryVars, countVars>>

\* update: phase 2 is over; start_auto_compactions(history); flush both databases
IndexDone ==
    /\ pc = "index"
    /\ to_index = << >>
    /\ history_db' = [history_db EXCEPT !.F = TRUE]
    /\ flush' = "Enable"
    /\ pc' = "tip"
    /\ UNCHANGED <<txstore_db, added_blockhashes, indexed_blockhashes, indexed_headers, tip,
                   new_headers, to_add, to_index, from, result, restVars>>
    /\ UNCHANGED <<queryVars, countVars>>

\* update: put_sync of the tip key
WriteTip ==
    /\ pc = "tip"
    /\ txstore_db' = [txstore_db EXCEPT !.t = tip]
    /\ pc' = "apply"
    /\ UNCHANGED <<history_db, added_blockhashes, indexed_blockhashes, indexed_headers, tip,
                   new_headers, to_add, to_index, flush, from, result, restVars>>
    /\ UNCHANGED <<queryVars, countVars>>

\* update: headers.apply(new_headers); assert_eq!(tip, headers.tip()); Ok(tip)
ApplyHeaders ==
    /\ pc = "apply"
    /\ indexed_headers' = apply(indexed_headers, new_headers)
    /\ IF tip = HeaderTip(indexed_headers')
       THEN /\ pc' = "idle"
            /\ result' = "ok"
            /\ from' = "Tapyrusd"
       ELSE /\ pc' = "assert_failed"
            /\ UNCHANGED <<result, from>>
    /\ UNCHANGED <<txstore_db, history_db, added_blockhashes, indexed_blockhashes, tip,
                   new_headers, to_add, to_index, flush, restVars>>
    /\ UNCHANGED <<queryVars, countVars>>

\* the hashes of the D rows of a database
load_blockhashes_all(db) == BlockHashes

load_blockhashes(db) == db.D

\* the process stops anywhere and is started again: Store::open and Indexer::open
RestartBody ==
    /\ pc # "idle"
    /\ added_blockhashes' = load_blockhashes(txstore_db)
    /\ indexed_blockhashes' = load_blockhashes(history_db)
    /\ indexed_headers' = IF txstore_db.t # NullHash
                          THEN HeaderListNew(txstore_db.B, txstore_db.t)
                          ELSE << >>
    /\ pc' = "idle"
    /\ tip' = NullHash
    /\ new_headers' = << >>
    /\ to_add' = << >>
    /\ to_index' = << >>
    /\ flush' = "Disable"
    /\ from' = "BlkFiles"
    /\ result' = "none"
    /\ UNCHANGED <<txstore_db, history_db, light_mode>>
    /\ UNCHANGED <<queryVars, countVars>>

Restart == RestartBody /\ UNCHANGED <<base, mempool, mlast, conn, rpc, assets, ledger, call, stats_calls>>

Next ==
    \/ \E h \in BlockHashes : UpdateStart(h)
    \/ DaemonError
    \/ FetchStart
    \/ FetchError
    \/ \E k \in 1..Cardinality(BlockHashes) : Add(k)
    \/ AddDone
    \/ \E k \in 1..Cardinality(BlockHashes) : Index(k)
    \/ IndexDone
    \/ WriteTip
    \/ ApplyHeaders
    \/ Restart

Spec == Init /\ [][Next]_vars

(***************************************************************************)
(* ChainQuery calls between the steps of the indexer                       *)
(***************************************************************************)
\* the process has not died of a panic
Alive == pc \notin {"panicked", "assert_failed", "stopped"}

\* ChainQuery::utxo(scripthash, utxos_limit), run to its end
QueryUtxo(scripthash) ==
    /\ Alive
    /\ nqueries < MaxQueries
    /\ nqueries' = nqueries + 1
    /\ cache_db' = utxo(txstore_db, history_db, cache_db, indexed_headers, scripthash,
                        utxos_limit).cache_db
    /\ UNCHANGED <<storeVars, updateVars, nupdates, restVars, q>>

\* ChainQuery::stats(scripthash), run to its end
QueryStats(scripthash) ==
    /\ Alive
    /\ nqueries < MaxQueries
    /\ nqueries' = nqueries + 1
    /\ cache_db' = stats(txstore_db, history_db, cache_db, indexed_headers, scripthash).cache_db
    /\ UNCHANGED <<storeVars, updateVars, nupdates, restVars, q>>

NextCache ==
    \/ \E h \in BlockHashes : CountedUpdateStart(h)
    \/ FetchStart
    \/ \E k \in 1..Cardinality(BlockHashes) : Add(k)
    \/ AddDone
    \/ \E k \in 1..Cardinality(BlockHashes) : Index(k)
    \/ IndexDone
    \/ WriteTip
    \/ ApplyHeaders
    \/ \E S \in ScriptHashes : QueryUtxo(S)
    \/ \E S \in ScriptHashes : QueryStats(S)

SpecCache == Init /\ [][NextCache]_vars

(***************************************************************************)
(* A client thread inside ChainQuery::utxo while the main thread updates:  *)
(* every tx_confirming_block call takes the header lock on its own         *)
(***************************************************************************)
\* what ChainQuery::utxo returns when nothing else runs during the call
UtxoResult(scripthash) ==
    LET r == utxo(txstore_db, history_db, cache_db, indexed_headers, scripthash, utxos_limit)
    IN [status |-> r.status, utxos |-> r.utxos,
        cached |-> {c \in r.cache_db.U : c.scripthash = scripthash}]

\* the results of an uninterrupted call at the instants the running call looked at the headers
SeenResults ==
    IF indexed_headers = q.headers THEN q.refs ELSE q.refs \cup {UtxoResult(q.scripthash)}

\* utxo: the cache lookup and the creation of the history iterator of utxo_delta
QStart(scripthash) ==
    /\ Alive
    /\ q.pc \in {"idle", "done"}
    /\ nqueries < MaxConcQueries
    /\ nqueries' = nqueries + 1
    /\ LET cached == {r \in cache_db.U : r.scripthash = scripthash /\
                                        header_by_blockhash(indexed_headers, r.blockhash) # NoEntry}
           had_cache == cached # {}
           row == CHOOSE r \in cached : TRUE
       IN IF had_cache /\ FromUtxoCachePanics(row.utxos_cache, indexed_headers)
          THEN q' = [QIdle EXCEPT !.pc = "done", !.scripthash = scripthash, !.status = "panic",
                                  !.headers = indexed_headers,
                                  !.refs = {UtxoResult(scripthash)}]
          ELSE LET start_height ==
                       IF had_cache
                       THEN header_by_blockhash(indexed_headers, row.blockhash).height + 1
                       ELSE 0
               IN q' = [QIdle EXCEPT
                           !.pc = "scan",
                           !.scripthash = scripthash,
                           !.had_cache = had_cache,
                           !.start_height = start_height,
                           !.rows = history_iter_scan(history_db, scripthash, start_height),
                           !.acc.utxos = IF had_cache
                                         THEN from_utxo_cache(row.utxos_cache, indexed_headers)
                                         ELSE EmptyMap,
                           !.headers = indexed_headers,
                           !.refs = {UtxoResult(scripthash)}]
    /\ UNCHANGED <<storeVars, updateVars, cache_db, nupdates, restVars>>

\* the last row of the run of rows of one transaction that starts at row pos
RECURSIVE RunEnd(_, _)
RunEnd(rows, pos) ==
    IF pos < Len(rows) /\ rows[pos + 1].txinfo.txid = rows[pos].txinfo.txid
    THEN RunEnd(rows, pos + 1) ELSE pos

\* utxo_delta: the turns of the for loop over the next rows of one transaction, each with the
\* tx_confirming_block call of its filter_map; the main thread gets to run between two runs
QRow ==
    /\ Alive
    /\ q.pc = "scan"
    /\ q.pos <= Len(q.rows)
    /\ ~q.acc.too_popular
    /\ LET last == RunEnd(q.rows, q.pos)
           conf == [t \in Txids |-> tx_confirming_block(txstore_db, indexed_headers, t)]
       IN q' = [q EXCEPT !.pos = last + 1,
                         !.acc = UtxoLoop(conf, q.rows, q.pos, last, @, utxos_limit),
                         !.headers = indexed_headers,
                         !.refs = SeenResults]
    /\ UNCHANGED <<storeVars, updateVars, cache_db, countVars, restVars>>

\* utxo: the loop is over; save the cache, return the Utxo objects (or TooPopular)
QFinish ==
    /\ Alive
    /\ q.pc = "scan"
    /\ q.pos > Len(q.rows) \/ q.acc.too_popular
    /\ q' = [q EXCEPT !.pc = "done",
                      !.status = IF q.acc.too_popular THEN "TooPopular" ELSE "ok",
                      !.utxos = IF q.acc.too_popular THEN {} ELSE Utxos(q.acc.utxos),
                      !.headers = indexed_headers,
                      !.refs = SeenResults]
    /\ cache_db' = IF /\ ~q.acc.too_popular
                      /\ q.acc.lastblock # NullHash
                      /\ (q.had_cache \/ q.acc.processed_items > MIN_HISTORY_ITEMS_TO_CACHE)
                   THEN PutUtxoCache(cache_db, UtxoCacheRow(q.scripthash, q.acc.utxos,
                                                            q.acc.lastblock))
                   ELSE cache_db
    /\ UNCHANGED <<storeVars, updateVars, countVars, restVars>>

\* an update call beside the client thread, counted
ConcUpdateStart(h) ==
    /\ nupdates < MaxConcUpdates
    /\ nupdates' = nupdates + 1
    /\ UpdateStartBody(h)
    /\ UNCHANGED <<nqueries, base, mempool, mlast, conn, rpc, assets, ledger, call, stats_calls>>

NextConc ==
    \/ \E h \in BlockHashes : ConcUpdateStart(h)
    \/ FetchStart
    \/ \E k \in 1..Cardinality(BlockHashes) : Add(k)
    \/ AddDone
    \/ \E k \in 1..Cardinality(BlockHashes) : Index(k)
    \/ IndexDone
    \/ WriteTip
    \/ ApplyHeaders
    \/ \E S \in ScriptHashes : QStart(S)
    \/ QRow
    \/ QFinish

SpecConc == Init /\ [][NextConc]_vars

(***************************************************************************)
(* An update that is interrupted by a process exit and run again           *)
(***************************************************************************)
\* update begins: remember the store, unless this call resumes an interrupted update
ResumableUpdateStart(h) ==
    /\ nupdates < MaxResumeUpdates
    /\ nupdates' = nupdates + 1
    /\ UpdateStartBody(h)
    /\ base' = IF base.crashed /\ base.tip = h /\ result # "ok"
               THEN base
               ELSE [crashed |-> FALSE, at |-> "idle", tip |-> h, txstore |-> txstore_db,
                     history |-> history_db, headers |-> indexed_headers,
                     added |-> added_blockhashes, indexed |-> indexed_blockhashes]
    /\ UNCHANGED <<nqueries, mempool, mlast, conn, rpc, assets, ledger, call, stats_calls>>

\* the process stops inside update (or dies of a panic) and is started again
InterruptedRestart ==
    /\ RestartBody
    /\ base' = IF base.crashed THEN base ELSE [base EXCEPT !.crashed = TRUE, !.at = pc]
    /\ UNCHANGED <<mempool, mlast, conn, rpc, assets, ledger, call, stats_calls>>

NextRestart ==
    \/ \E h \in BlockHashes : ResumableUpdateStart(h)
    \/ DaemonError
    \/ FetchStart
    \/ FetchError
    \/ \E k \in 1..Cardinality(BlockHashes) : Add(k)
    \/ AddDone
    \/ \E k \in 1..Cardinality(BlockHashes) : Index(k)
    \/ IndexDone
    \/ WriteTip
    \/ ApplyHeaders
    \/ InterruptedRestart

SpecRestart == Init /\ [][NextRestart]_vars

(***************************************************************************)
(* What the best chain says, computed from the blocks, not from the rows   *)
(***************************************************************************)
\* the transactions of the blocks of a header list
ChainTxids(headers) == UNION {Range(Block(headers[i]).txdata) : i \in DOMAIN headers}

\* the block of the header list that holds the transaction
ChainBlockOf(headers, t) ==
    LET i == CHOOSE j \in DOMAIN headers : t \in Range(Block(headers[j]).txdata)
    IN HeaderEntry(headers[i], i - 1)

\* an output pays the script hash: it is the hash of its script, or of the underlying script
\* of its colored script
PaysTo(txo, scripthash) ==
    \/ compute_script_hash(txo.script_pubkey) = scripthash
    \/ /\ IsColored(txo.script_pubkey)
       /\ compute_script_hash(Underlying(txo.script_pubkey)) = scripthash

\* the unspent outputs of the script hash after applying every transaction of the chain
DirectUtxo(headers, scripthash) ==
    LET txids == ChainTxids(headers)
        spent == UNION {Range(Tx(t).input) : t \in txids}
        funded == UNION {{OutPoint(t, i - 1) : i \in {j \in DOMAIN Tx(t).output :
                                                   PaysTo(Tx(t).output[j], scripthash)}} :
                         t \in txids}
    IN {[txid |-> o.txid, vout |-> o.vout, confirmed |-> ChainBlockOf(headers, o.txid),
         color_id |-> TxoOf(o).script_pubkey.color_id, value |-> TxoOf(o).value] :
        o \in funded \ spent}

\* the chain of blocks that ends at block h, by the prev_blockhash links
RECURSIVE ChainTo(_)
ChainTo(h) == IF h = NullHash THEN {} ELSE {h} \cup ChainTo(Block(h).prev_blockhash)

\* no block outside the header list was ever added or indexed
NoOrphanedBlock ==
    (txstore_db.D \cup history_db.D) \subseteq Range(indexed_headers)

\* the history rows that index_blocks writes for the blocks of the header list
BestChainRows(headers) ==
    Range(index_blocks([i \in DOMAIN headers |-> HeaderEntry(headers[i], i - 1)]).H)

\* the history database without the rows written for blocks outside the header list
BestChainHistory(hdb, headers) ==
    LET best == BestChainRows(headers)
    IN [hdb EXCEPT !.H = SelectSeq(hdb.H, LAMBDA r : r \in best)]

\* the history database without the rows of one transaction
HistoryWithout(hdb, t) == [hdb EXCEPT !.H = SelectSeq(hdb.H, LAMBDA r : r.txinfo.txid # t)]

\* ChainQuery::history_txids: the txids of the rows in scan order, each once, with the
\* confirming block, unconfirmed ones dropped, at most limit of them
history_txids(tdb, hdb, headers, scripthash, limit) ==
    LET rows == history_iter_scan(hdb, scripthash, 0)
        txids == {rows[i].txinfo.txid : i \in DOMAIN rows}
        first(t) == CHOOSE i \in DOMAIN rows :
                        /\ rows[i].txinfo.txid = t
                        /\ \A j \in 1..(i - 1) : rows[j].txinfo.txid # t
        ordered == [i \in 1..Cardinality(txids) |->
                       CHOOSE t \in txids :
                           Cardinality({u \in txids : first(u) < first(t)}) = i - 1]
        confirmed == SelectSeq(ordered,
                               LAMBDA t : tx_confirming_block(tdb, headers, t) # NoEntry)
    IN [i \in 1..(IF Len(confirmed) < limit THEN Len(confirmed) ELSE limit) |->
           <<confirmed[i], tx_confirming_block(tdb, headers, confirmed[i])>>]

\* ChainQuery::lookup_raw_txn(txid, None): in light mode the daemon is asked for the
\* transaction of the confirming block; otherwise the T row is read, whatever its block
lookup_raw_txn(tdb, headers, light, txid) ==
    IF light
    THEN IF tx_confirming_block(tdb, headers, txid) = NoEntry THEN "none" ELSE "found"
    ELSE IF txid \in tdb.T THEN "found" ELSE "none"

(***************************************************************************)
(* Properties                                                              *)
(***************************************************************************)
\* every block that was indexed was indexed by this process, in an update that went on to
\* apply its headers (Store::open loaded no done marker from the history database)
IndexedByThisProcess == indexed_blockhashes = {}

\* every history row whose transaction has a confirming block was written for that block
NoStrayRows ==
    LET best == BestChainRows(indexed_headers)
        conf == [t \in Txids |-> tx_confirming_block(txstore_db, indexed_headers, t)]
    IN \A i \in DOMAIN history_db.H :
          conf[history_db.H[i].txinfo.txid] # NoEntry => history_db.H[i] \in best

\* the transaction was indexed in a block, and no block of the best chain holds it
OrphanedOnly(t) ==
    /\ \E c \in txstore_db.C : c[1] = t /\ c[2] \in history_db.D
    /\ t \notin ChainTxids(indexed_headers)

\* C1: for every script hash S (plain, colored, underlying) and every prefix of the best
\* chain that is indexed, utxo(S) is the set obtained by applying the transactions of the
\* prefix directly; an output spent in the prefix is in the result for none of the hashes.
C1_UtxoIsDirectApplication ==
    NoOrphanedBlock =>
        \A S \in ScriptHashes :
            LET r == utxo(txstore_db, history_db, cache_db, indexed_headers, S, utxos_limit)
            IN r.status = "ok" /\ r.utxos = DirectUtxo(indexed_headers, S)

\* C2: after update returns successfully, every block of new_headers has a done marker in
\* txstore and a done marker in history.
C2_NewHeadersDone ==
    result = "ok" =>
        \A i \in DOMAIN new_headers :
            new_headers[i].hash \in txstore_db.D /\ new_headers[i].hash \in history_db.D

\* an update that replaced the branch A-P1-P2 by A-Q1-Q2 has returned
C2_Witness ==
    /\ result = "ok"
    /\ Len(new_headers) = 2
    /\ indexed_headers = <<BlkA, BlkQ1, BlkQ2>>
    /\ BlkP2 \in history_db.D

\* C3: within one update every history write comes after the txstore writes of all new
\* headers, the tip key t is written only after the rows of both phases are written and
\* flushed, and whenever t names H every block of the chain ending at H has its done marker
\* in txstore and in history.
C3_PhasesThenTip ==
    /\ [][/\ (history_db'.H # history_db.H \/ history_db'.S # history_db.S
                \/ history_db'.D # history_db.D)
              => /\ pc = "index"
                 /\ \A i \in DOMAIN new_headers : new_headers[i].hash \in txstore_db.D
          /\ (txstore_db'.t # txstore_db.t)
              => /\ \A i \in DOMAIN new_headers :
                        new_headers[i].hash \in txstore_db.D \cap history_db.D
                 /\ txstore_db.F /\ history_db.F /\ flush = "Enable"]_vars
    /\ [](txstore_db.t # NullHash =>
            ChainTo(txstore_db.t) \subseteq (txstore_db.D \cap history_db.D))

\* t names P1 while a later update has added Q2 and not yet indexed it
C3_Witness ==
    /\ txstore_db.t = BlkP1
    /\ pc = "index"
    /\ BlkQ2 \in txstore_db.D
    /\ BlkQ2 \notin history_db.D

\* C4: after every update that returns, the tip of the header list is the value of t and the
\* best block hash the daemon reported, and the assertion tip == headers.tip() holds on every
\* execution that reaches it, whatever the daemon's tip is.
C4_TipAgreesAfterUpdate ==
    /\ pc # "assert_failed"
    /\ result = "ok" => (HeaderTip(indexed_headers) = txstore_db.t /\ txstore_db.t = tip)

\* C5: in every state, also during an update and after a restart, the blocks with a done
\* marker in history are blocks with a done marker in txstore (on disk and as loaded).
C5_HistoryDoneInTxstore ==
    /\ history_db.D \subseteq txstore_db.D
    /\ indexed_blockhashes \subseteq added_blockhashes

\* after a restart that loaded A and P1 as indexed, an update has added Q1 and is indexing
C5_Witness ==
    /\ indexed_blockhashes = {BlkA, BlkP1}
    /\ pc = "index"
    /\ BlkQ1 \in added_blockhashes
    /\ BlkQ1 \notin history_db.D

\* C6: a utxo call that runs beside an update returns, and caches, what an uninterrupted call
\* returns and caches before the update or after it (stated for the calls whose iterator
\* saw every row the history database holds when they return).
C6_ConcurrentUtxoIsPreOrPost ==
    (q.pc = "done" /\ q.rows = history_iter_scan(history_db, q.scripthash, q.start_height)) =>
        [status |-> q.status, utxos |-> q.utxos,
         cached |-> {c \in cache_db.U : c.scripthash = q.scripthash}] \in q.refs

\* C7: after a reorg, a transaction confirmed only in a block that left the best chain is not
\* found: no confirming block, no part in history_txids, utxo and stats, and no raw
\* transaction from lookup_raw_txn, in light mode or not.
C7_OrphanedTxNotFound ==
    (pc = "idle" /\ result = "ok" /\ IndexedByThisProcess) =>
        \A t \in Txids :
            OrphanedOnly(t) =>
                /\ tx_confirming_block(txstore_db, indexed_headers, t) = NoEntry
                /\ \A S \in ScriptHashes :
                      LET without == HistoryWithout(history_db, t)
                      IN /\ history_txids(txstore_db, history_db, indexed_headers, S,
                                          utxos_limit)
                            = history_txids(txstore_db, without, indexed_headers, S,
                                            utxos_limit)
                         /\ utxo_delta(txstore_db, history_db, indexed_headers, S, EmptyMap, 0,
                                       utxos_limit)
                            = utxo_delta(txstore_db, without, indexed_headers, S, EmptyMap, 0,
                                         utxos_limit)
                         /\ stats_delta(txstore_db, history_db, indexed_headers, S, EmptyMap, 0)
                            = stats_delta(txstore_db, without, indexed_headers, S, EmptyMap, 0)
                /\ lookup_raw_txn(txstore_db, indexed_headers, light_mode, t) = "none"

\* C8: after a reorg, the history rows written for a block that left the best chain change
\* the result of neither history_txids nor utxo nor stats, also when their transaction is
\* confirmed again in the best chain at another height.
C8_OrphanRowsNeverCount ==
    (pc = "idle" /\ result = "ok" /\ IndexedByThisProcess
        /\ ~(history_db.D \subseteq Range(indexed_headers))) =>
        \A S \in ScriptHashes :
            LET best == BestChainHistory(history_db, indexed_headers)
            IN /\ history_txids(txstore_db, history_db, indexed_headers, S, utxos_limit)
                  = history_txids(txstore_db, best, indexed_headers, S, utxos_limit)
               /\ utxo_delta(txstore_db, history_db, indexed_headers, S, EmptyMap, 0,
                             utxos_limit).utxos
                  = utxo_delta(txstore_db, best, indexed_headers, S, EmptyMap, 0,
                               utxos_limit).utxos
               /\ stats_delta(txstore_db, history_db, indexed_headers, S, EmptyMap, 0).stats
                  = stats_delta(txstore_db, best, indexed_headers, S, EmptyMap, 0).stats

\* C9: after any updates, reorgs and earlier utxo calls, utxo(S) with the U cache returns
\* what the fold from height 0 with no cache returns.
C9_CachedUtxoIsFoldFromZero ==
    \A S \in ScriptHashes :
        LET with == utxo(txstore_db, history_db, cache_db, indexed_headers, S, utxos_limit)
            fold == utxo(txstore_db, history_db, EmptyCache, indexed_headers, S, utxos_limit)
        IN with.status = fold.status /\ with.utxos = fold.utxos

\* C10: stats(S) drops cached statistics whose block left the best chain: after any reorg its
\* result is the fold of the history of S from empty statistics (stated for the states whose
\* history rows of confirmed transactions all belong to the best chain).
C10_StatsRebuiltAfterReorg ==
    NoStrayRows =>
    \A S \in ScriptHashes :
        stats(txstore_db, history_db, cache_db, indexed_headers, S).stats
            = stats_delta(txstore_db, history_db, indexed_headers, S, EmptyMap, 0).stats

\* what Indexer::update leaves in the store when it runs from the store b to its end
UninterruptedUpdate(b) ==
    LET nh == order(b.headers, get_new_headers(b.headers, b.tip))
        ta == headers_to_add(nh, b.added)
        ti == headers_to_index(nh, b.indexed)
        tx == MergeTxstore(b.txstore, add_blocks(ta, light_mode))
    IN [txstore |-> [tx EXCEPT !.t = b.tip],
        history |-> MergeHistory(b.history, index_blocks(ti)),
        new_headers |-> nh,
        headers |-> apply(b.headers, nh),
        added |-> b.added \cup {ta[i].hash : i \in DOMAIN ta},
        panics |-> \E o \in get_previous_txos(ti) : ~lookup_txo(tx, o)]

\* the rows, markers and tip key of the two databases
StoreRows(tx, hi) == <<[tx EXCEPT !.F = TRUE], [hi EXCEPT !.F = TRUE]>>

\* C11: when the process stops inside update and is restarted, Store::open loads
\* added_blockhashes and indexed_blockhashes from the D rows, the next update to the same tip
\* fetches exactly the new headers without a marker, and when it succeeds the rows, markers
\* and tip key are those an update that was never interrupted would have left.
C11_InterruptedUpdateResumes ==
    /\ [][/\ (pc # "idle" /\ pc' = "idle" /\ result' = "none")
              => /\ added_blockhashes' = txstore_db.D
                 /\ indexed_blockhashes' = history_db.D
          /\ (base'.crashed /\ pc = "idle" /\ pc' = "fetch_add")
              => to_add' = SelectSeq(new_headers',
                                     LAMBDA e : e.hash \notin txstore_db.D)
          /\ (base.crashed /\ pc = "add" /\ pc' = "fetch_index")
              => to_index' = SelectSeq(new_headers,
                                       LAMBDA e : e.hash \notin history_db.D)]_vars
    /\ []((base.crashed /\ pc = "idle" /\ result = "ok" /\ ~UninterruptedUpdate(base).panics)
            => StoreRows(txstore_db, history_db)
                 = StoreRows(UninterruptedUpdate(base).txstore,
                             UninterruptedUpdate(base).history))

\* an update from A-P1-P2 to A-Q1-Q2 stopped while indexing, was run again and returned
C11_Witness ==
    /\ base.crashed
    /\ base.at = "index"
    /\ base.headers = <<BlkA, BlkP1, BlkP2>>
    /\ base.history.D # history_db.D
    /\ result = "ok"
    /\ indexed_headers = <<BlkA, BlkQ1, BlkQ2>>

(***************************************************************************)
(* Mempool                                                                 *)
(***************************************************************************)
\* the transactions the daemon may hold unconfirmed
MempoolCandidates == {T1, T2, T3, M1, M2}

\* a mempool the daemon can have when its best block is d: unconfirmed transactions whose
\* inputs exist, are unspent in the chain and are spent once
ValidMempool(d, m) ==
    LET conf == UNION {Range(Block(b).txdata) : b \in ChainTo(d)}
        spent == UNION {Range(Tx(t).input) : t \in conf}
    IN \A t \in m :
          /\ t \notin conf
          /\ \A o \in Range(Tx(t).input) :
                /\ o.txid \in conf \cup m
                /\ o \notin spent
                /\ \A u \in m \ {t} : o \notin Range(Tx(u).input)

DaemonMempools ==
    {m \in SUBSET MempoolCandidates : \E d \in BlockHashes : ValidMempool(d, m)}

\* the orders in which a set of at most MaxBatch transactions can come back from the daemon
Orders(S) ==
    {f \in [1..Cardinality(S) -> S] : \A i, j \in 1..Cardinality(S) : f[i] = f[j] => i = j}

\* Mempool::get_prevouts
get_prevouts(txids) == UNION {Range(Tx(t).input) : t \in txids}

\* Mempool::lookup_txos is Ok: every outpoint has an O row in the chain's txstore or is an
\* output of a transaction of the mempool txstore
mempool_lookup_txos(tdb, txstore, outpoints) ==
    \A o \in outpoints :
        \/ lookup_txo(tdb, o)
        \/ o.txid \in txstore /\ (o.vout + 1) \in DOMAIN Tx(o.txid).output

\* a script_pubkey is indexed under the script hash: its own hash, and for a colored script
\* the hash of the underlying script too
IndexedUnder(spk, scripthash) ==
    \/ compute_script_hash(spk) = scripthash
    \/ IsColored(spk) /\ compute_script_hash(Underlying(spk)) = scripthash

\* Mempool::add: the funding entries of the transaction under one script hash
MempoolFunding(t, scripthash) ==
    LET idx == SelectSeq([i \in DOMAIN Tx(t).output |-> i],
                         LAMBDA i : IndexedUnder(Tx(t).output[i].script_pubkey, scripthash))
    IN [k \in DOMAIN idx |->
           FundingInfo(t, idx[k] - 1, Tx(t).output[idx[k]].script_pubkey.color_id,
                       Tx(t).output[idx[k]].value)]

\* Mempool::add: the spending entries of the transaction under one script hash
MempoolSpending(t, scripthash) ==
    LET idx == SelectSeq([i \in DOMAIN Tx(t).input |-> i],
                         LAMBDA i : IndexedUnder(TxoOf(Tx(t).input[i]).script_pubkey,
                                                 scripthash))
    IN [k \in DOMAIN idx |->
           SpendingInfo(t, idx[k] - 1, Tx(t).input[idx[k]].txid, Tx(t).input[idx[k]].vout,
                        TxoOf(Tx(t).input[idx[k]]).script_pubkey.color_id,
                        TxoOf(Tx(t).input[idx[k]]).value)]

\* get_amounts: the sum of the values of the outputs colored c
RECURSIVE get_amounts(_, _)
get_amounts(outs, c) ==
    IF outs = << >> THEN 0
    ELSE (IF Head(outs).script_pubkey.color_id = c THEN Head(outs).value ELSE 0)
         + get_amounts(Tail(outs), c)

\* create_history_info that records the whole input amount as burned
create_history_info_burning_all(txid, prev_amount, amount) ==
    IF amount > prev_amount
    THEN << [tag |-> "Issuing", txid |-> txid, value |-> amount - prev_amount] >>
         \o (IF prev_amount > 0
             THEN << [tag |-> "Transferring", txid |-> txid, value |-> prev_amount] >>
             ELSE << >>)
    ELSE IF amount = prev_amount
    THEN << [tag |-> "Transferring", txid |-> txid, value |-> amount] >>
    ELSE << [tag |-> "Burning", txid |-> txid, value |-> prev_amount] >>
         \o (IF amount > 0
             THEN << [tag |-> "Transferring", txid |-> txid, value |-> amount] >>
             ELSE << >>)

\* create_history_info
create_history_info(txid, prev_amount, amount) ==
    IF amount > prev_amount
    THEN << [tag |-> "Issuing", txid |-> txid, value |-> amount - prev_amount] >>
         \o (IF prev_amount > 0
             THEN << [tag |-> "Transferring", txid |-> txid, value |-> prev_amount] >>
             ELSE << >>)
    ELSE IF amount = prev_amount
    THEN << [tag |-> "Transferring", txid |-> txid, value |-> amount] >>
    ELSE << [tag |-> "Burning", txid |-> txid, value |-> prev_amount - amount] >>
         \o (IF amount > 0
             THEN << [tag |-> "Transferring", txid |-> txid, value |-> amount] >>
             ELSE << >>)

\* colored_tx_history, for the one color of the model
colored_tx_history(t) ==
    LET previous == [i \in DOMAIN Tx(t).input |-> TxoOf(Tx(t).input[i])]
        has_color(outs) == \E i \in DOMAIN outs : outs[i].script_pubkey.color_id = Color1
    IN IF has_color(previous) \/ has_color(Tx(t).output)
       THEN create_history_info(t, get_amounts(previous, Color1),
                                get_amounts(Tx(t).output, Color1))
       ELSE << >>

\* get_tx_fee: uncolored input value minus uncolored output value
get_tx_fee(t) ==
    get_amounts([i \in DOMAIN Tx(t).input |-> TxoOf(Tx(t).input[i])], DefaultColor)
        - get_amounts(Tx(t).output, DefaultColor)

\* Mempool::add, phase 2, for one transaction
MempoolIndexTx(m, t) ==
    [m EXCEPT
        !.recent = SubSeq(<<t>> \o @, 1,
                          IF Len(@) + 1 < RECENT_TXS_SIZE THEN Len(@) + 1 ELSE RECENT_TXS_SIZE),
        !.overviews = {o \in @ : o.txid # t} \cup {[txid |-> t, fee |-> get_tx_fee(t)]},
        !.feeinfo = {f \in @ : f.txid # t} \cup {[txid |-> t, fee |-> get_tx_fee(t)]},
        !.history = [S \in ScriptHashes |->
                        @[S] \o MempoolFunding(t, S) \o MempoolSpending(t, S)],
        !.edges = {e \in @ : e.outpoint \notin Range(Tx(t).input)}
                  \cup {[outpoint |-> Tx(t).input[i], txid |-> t, vin |-> i - 1] :
                        i \in DOMAIN Tx(t).input},
        !.colors = @ \o colored_tx_history(t)]

RECURSIVE MempoolIndexTxs(_, _)
MempoolIndexTxs(m, txs) ==
    IF txs = << >> THEN m ELSE MempoolIndexTxs(MempoolIndexTx(m, Head(txs)), Tail(txs))

\* Mempool::add that stores nothing when a previous output is found nowhere
mempool_add_dropping_unindexed(m, tdb, txs) ==
    LET stored == [m EXCEPT !.txstore = @ \cup Range(txs)]
    IN IF mempool_lookup_txos(tdb, stored.txstore, get_prevouts(Range(txs)))
       THEN MempoolIndexTxs(stored, txs)
       ELSE m

\* Mempool::add: phase 1 stores the transactions; phase 2 indexes them, unless a previous
\* output is found nowhere, and then nothing is indexed
mempool_add(m, tdb, txs) ==
    LET stored == [m EXCEPT !.txstore = @ \cup Range(txs)]
    IN IF mempool_lookup_txos(tdb, stored.txstore, get_prevouts(Range(txs)))
       THEN MempoolIndexTxs(stored, txs)
       ELSE stored

\* Mempool::remove that keeps the history entries
mempool_remove_keeping_history(m, to_remove) ==
    [m EXCEPT
        !.txstore = @ \ to_remove,
        !.overviews = {o \in @ : o.txid \notin to_remove},
        !.feeinfo = {f \in @ : f.txid \notin to_remove},
        !.edges = {e \in @ : e.txid \notin to_remove},
        !.colors = SelectSeq(@, LAMBDA e : e.txid \notin to_remove)]

\* Mempool::remove
mempool_remove(m, to_remove) ==
    [m EXCEPT
        !.txstore = @ \ to_remove,
        !.overviews = {o \in @ : o.txid \notin to_remove},
        !.feeinfo = {f \in @ : f.txid \notin to_remove},
        !.history = [S \in ScriptHashes |->
                        SelectSeq(@[S], LAMBDA e : e.txid \notin to_remove)],
        !.edges = {e \in @ : e.txid \notin to_remove},
        !.colors = SelectSeq(@, LAMBDA e : e.txid \notin to_remove)]

\* BacklogStats::new
BacklogStats(feeinfo) ==
    LET RECURSIVE Total(_)
        Total(fs) == IF fs = {} THEN 0
                     ELSE LET f == CHOOSE x \in fs : TRUE IN f.fee + Total(fs \ {f})
    IN [count |-> Cardinality(feeinfo), total_fee |-> Total(feeinfo)]

\* Mempool::update after both fetches succeeded: add, remove, refresh the backlog statistics
\* when they have expired
mempool_update(m, tdb, to_add_tx, to_remove, expired) ==
    LET added == mempool_add(m, tdb, to_add_tx)
        removed == mempool_remove(added, to_remove)
    IN IF expired
       THEN [removed EXCEPT !.backlog_stats = BacklogStats(removed.feeinfo)]
       ELSE removed

\* a failed gettransactions that still removes the missing transactions
mempool_update_failed_removing(m, to_remove) == mempool_remove(m, to_remove)

\* Mempool::update when gettransactions fails: the mempool is kept until the next update
mempool_update_failed(m, to_remove) == m

\* Mempool::update: getmempool answers with the summary new_txids, or fails and the main loop
\* ends; gettransactions answers with the transactions in some order, or fails
Mempool_update ==
    /\ pc = "idle"
    /\ mlast.n < MaxMempoolCalls
    /\ \E outcome \in {"getmempool failed", "gettransactions failed", "ok"},
          new_txids \in DaemonMempools, expired \in BOOLEAN :
          LET old_txids == mempool.txstore
              to_remove == old_txids \ new_txids
              txids == new_txids \ old_txids
          IN /\ Cardinality(txids) <= MaxBatch
             /\ \E to_add_tx \in Orders(txids) :
                   /\ outcome # "ok" =>
                         (to_add_tx = CHOOSE f \in Orders(txids) : TRUE) /\ ~expired
                   /\ outcome = "getmempool failed" => new_txids = {}
                   /\ mlast' = [op |-> "update", result |-> outcome, n |-> mlast.n + 1,
                                old_txids |-> old_txids,
                                new_txids |-> new_txids,
                                to_add |-> IF outcome = "getmempool failed" THEN << >>
                                           ELSE to_add_tx,
                                to_remove |-> IF outcome = "getmempool failed" THEN {}
                                              ELSE to_remove]
                   /\ mempool' = IF outcome = "ok"
                                 THEN mempool_update(mempool, txstore_db, to_add_tx,
                                                     to_remove, expired)
                                 ELSE IF outcome = "gettransactions failed"
                                 THEN mempool_update_failed(mempool, to_remove)
                                 ELSE mempool
                   /\ pc' = IF outcome = "getmempool failed" THEN "stopped" ELSE pc
    /\ UNCHANGED <<storeVars, tip, new_headers, to_add, to_index, flush, from, result>>
    /\ UNCHANGED <<queryVars, countVars, light_mode, base, conn, rpc, assets, ledger, call, stats_calls>>

\* Mempool::add_by_txid after a broadcast: a transaction that is not stored is fetched from
\* the daemon and added; a failed fetch adds nothing
Mempool_add_by_txid(txid) ==
    /\ pc = "idle"
    /\ mlast.n < MaxMempoolCalls
    /\ \E fetched \in BOOLEAN :
          /\ mlast' = [op |-> "add_by_txid",
                       result |-> IF txid \in mempool.txstore THEN "known"
                                  ELSE IF fetched THEN "ok" ELSE "fetch failed",
                       n |-> mlast.n + 1, old_txids |-> mempool.txstore, new_txids |-> {},
                       to_add |-> IF txid \notin mempool.txstore /\ fetched THEN <<txid>>
                                  ELSE << >>,
                       to_remove |-> {}]
          /\ mempool' = IF txid \notin mempool.txstore /\ fetched
                        THEN mempool_add(mempool, txstore_db, <<txid>>)
                        ELSE mempool
    /\ UNCHANGED <<storeVars, updateVars, queryVars, countVars, light_mode, base, conn, rpc, assets, ledger, call, stats_calls>>

\* Indexer::update from entry to return, as the main loop runs it before Mempool::update
Indexer_update(h) ==
    /\ pc = "idle"
    /\ nupdates < MaxMempoolChainUpdates
    /\ nupdates' = nupdates + 1
    /\ LET u == UninterruptedUpdate([NoBase EXCEPT !.tip = h,
                                                   !.txstore = txstore_db,
                                                   !.history = history_db,
                                                   !.headers = indexed_headers,
                                                   !.added = added_blockhashes,
                                                   !.indexed = indexed_blockhashes])
       IN /\ tip' = h
          /\ new_headers' = u.new_headers
          /\ added_blockhashes' = u.added
          /\ IF u.panics
             THEN /\ pc' = "panicked"
                  /\ txstore_db' = [u.txstore EXCEPT !.t = txstore_db.t, !.F = TRUE]
                  /\ UNCHANGED <<history_db, indexed_headers, flush, from, result>>
             ELSE /\ txstore_db' = [u.txstore EXCEPT !.F = TRUE]
                  /\ history_db' = [u.history EXCEPT !.F = TRUE]
                  /\ indexed_headers' = u.headers
                  /\ flush' = "Enable"
                  /\ IF h = HeaderTip(u.headers)
                     THEN pc' = "idle" /\ result' = "ok" /\ from' = "Tapyrusd"
                     ELSE pc' = "assert_failed" /\ UNCHANGED <<result, from>>
    /\ UNCHANGED <<indexed_blockhashes, to_add, to_index, queryVars, nqueries, restVars>>

\* the main loop: Indexer::update when the tip moved, then Mempool::update; add_by_txid on a
\* broadcast. The mempool exists once the first update has returned.
NextMempool ==
    \/ \E h \in BlockHashes : Indexer_update(h)
    \/ result = "ok" /\ Mempool_update
    \/ result = "ok" /\ \E txid \in MempoolCandidates : Mempool_add_by_txid(txid)

SpecMempool == Init /\ [][NextMempool]_vars

\* C12: when getmempool or the gettransactions of to_add fails, Mempool.update leaves
\* txstore, feeinfo, history, colors, edges, recent, overviews and backlog_stats as they were.
C12_FailedFetchKeepsMempool ==
    [][(mlast'.n # mlast.n /\ mlast'.op = "update"
        /\ mlast'.result \in {"getmempool failed", "gettransactions failed"})
       => mempool' = mempool]_vars

\* gettransactions failed in an update that had one transaction to remove and one to add
C12_Witness ==
    /\ mlast.op = "update"
    /\ mlast.result = "gettransactions failed"
    /\ mlast.to_remove # {}
    /\ mlast.to_add # << >>
    /\ mempool.txstore = mlast.old_txids
    /\ mempool.edges # {}

\* C13: after a Mempool.update whose fetches succeed the txids of txstore are the txids of
\* the daemon's summary: old \ new was removed and new \ old was added.
C13_TxstoreIsSummary ==
    (mlast.op = "update" /\ mlast.result = "ok") =>
        /\ mempool.txstore = mlast.new_txids
        /\ mlast.to_remove = mlast.old_txids \ mlast.new_txids
        /\ Range(mlast.to_add) = mlast.new_txids \ mlast.old_txids
        /\ mempool.txstore = (mlast.old_txids \ mlast.to_remove) \cup Range(mlast.to_add)

\* an update removed a transaction, added another and kept a third
C13_Witness ==
    /\ mlast.op = "update"
    /\ mlast.result = "ok"
    /\ mlast.to_remove # {}
    /\ mlast.to_add # << >>
    /\ mlast.old_txids \cap mlast.new_txids # {}

\* the txids that the entries of history, colors, edges, feeinfo and overviews name
IndexedTxids(m) ==
    UNION {{m.history[S][i].txid : i \in DOMAIN m.history[S]} : S \in ScriptHashes}
    \cup {m.colors[i].txid : i \in DOMAIN m.colors}
    \cup {e.txid : e \in m.edges}
    \cup {f.txid : f \in m.feeinfo}
    \cup {o.txid : o \in m.overviews}

\* C14: after every Mempool.update and add_by_txid every txid named by an entry of history,
\* colors, edges, feeinfo or overviews is a key of txstore, and the edge of an outpoint that
\* a removed transaction and an added transaction both spend names the added one.
C14_IndexEntriesAreStored ==
    /\ IndexedTxids(mempool) \subseteq mempool.txstore
    /\ (mlast.op = "update" /\ mlast.result = "ok") =>
          \A e \in mempool.edges :
              ((\E r \in mlast.to_remove : e.outpoint \in Range(Tx(r).input))
               /\ (\E a \in Range(mlast.to_add) : e.outpoint \in Range(Tx(a).input)))
                  => e.txid \in Range(mlast.to_add)

\* an update replaced T3 by M1, which spends the same output, and M1 owns the edge
C14_Witness ==
    /\ mlast.op = "update"
    /\ mlast.result = "ok"
    /\ T3 \in mlast.to_remove
    /\ mlast.to_add = <<M1>>
    /\ \E e \in mempool.edges : e.outpoint = OutPoint(G, 1) /\ e.txid = M1

(***************************************************************************)
(* Query: the chain index and the mempool together                         *)
(***************************************************************************)
\* Mempool::has_spend
has_spend(m, outpoint) == \E e \in m.edges : e.outpoint = outpoint

\* Mempool::utxo: the funding entries of the script hash whose outpoint has no edge
mempool_utxo(m, scripthash) ==
    LET entries == m.history[scripthash]
    IN {[txid |-> entries[i].txid, vout |-> entries[i].vout, confirmed |-> NoEntry,
         color_id |-> entries[i].color_id, value |-> entries[i].value] :
        i \in {j \in DOMAIN entries :
                  /\ entries[j].tag = Funding
                  /\ ~has_spend(m, OutPoint(entries[j].txid, entries[j].vout))}}

\* Query::utxo with utxos_limit = limit
Query_utxo(tdb, hdb, cdb, headers, m, scripthash, limit) ==
    LET confirmed == utxo(tdb, hdb, cdb, headers, scripthash, limit)
    IN IF confirmed.status # "ok"
       THEN [status |-> confirmed.status, utxos |-> {}]
       ELSE [status |-> "ok",
             utxos |-> {u \in confirmed.utxos : ~has_spend(m, OutPoint(u.txid, u.vout))}
                       \cup mempool_utxo(m, scripthash)]

\* Mempool::history_txids: the txids of the entries, each once, in the order of their
\* first entry, and at most limit of them
mempool_history_txids(m, scripthash, limit) ==
    LET entries == m.history[scripthash]
        firsts == SelectSeq([i \in DOMAIN entries |-> i],
                            LAMBDA i : \A j \in 1..(i - 1) : entries[j].txid # entries[i].txid)
        txids == [k \in DOMAIN firsts |-> entries[firsts[k]].txid]
    IN SubSeq(txids, 1, IF Len(txids) < limit THEN Len(txids) ELSE limit)

\* Query::history_txids
Query_history_txids(tdb, hdb, headers, m, scripthash, limit) ==
    LET confirmed_txids == history_txids(tdb, hdb, headers, scripthash, limit)
        mempool_txids == mempool_history_txids(m, scripthash, limit - Len(confirmed_txids))
    IN confirmed_txids \o [i \in DOMAIN mempool_txids |-> <<mempool_txids[i], NoEntry>>]

\* get_history of the Electrum server
get_history(tdb, hdb, headers, m, scripthash, txs_limit) ==
    LET history == Query_history_txids(tdb, hdb, headers, m, scripthash, txs_limit + 1)
    IN IF Len(history) <= txs_limit
       THEN [status |-> "ok", history |-> history]
       ELSE [status |-> "TooPopular", history |-> << >>]

\* the limits the queries are asked with
Limits == {1, 2, 4}

\* the outputs that the transactions of the mempool txstore spend
MempoolSpent(m) == UNION {Range(Tx(t).input) : t \in m.txstore}

\* the outputs to the script hash that transactions of the mempool txstore fund
MempoolFunded(m, scripthash) ==
    UNION {{OutPoint(t, i - 1) :
               i \in {j \in DOMAIN Tx(t).output :
                         IndexedUnder(Tx(t).output[j].script_pubkey, scripthash)}} :
           t \in m.txstore}

\* C15: Query.utxo(S) is the confirmed UTXOs of S that no mempool transaction spends and the
\* outputs to S funded by mempool transactions that no mempool transaction spends.
C15_UtxoMergesMempool ==
    result = "ok" =>
        \A S \in ScriptHashes :
            LET confirmed == utxo(txstore_db, history_db, cache_db, indexed_headers, S,
                                  utxos_limit)
                r == Query_utxo(txstore_db, history_db, cache_db, indexed_headers, mempool, S,
                                utxos_limit)
            IN confirmed.status = "ok" =>
                  /\ r.status = "ok"
                  /\ {u \in r.utxos : u.confirmed # NoEntry}
                       = {u \in confirmed.utxos :
                             OutPoint(u.txid, u.vout) \notin MempoolSpent(mempool)}
                  /\ {OutPoint(u.txid, u.vout) : u \in {v \in r.utxos : v.confirmed = NoEntry}}
                       = MempoolFunded(mempool, S) \ MempoolSpent(mempool)

\* every transaction of the mempool is indexed there and none is confirmed on the indexed chain
MempoolSettled ==
    /\ \A t \in mempool.txstore : \E f \in mempool.feeinfo : f.txid = t
    /\ \A i \in DOMAIN indexed_headers :
          Range(Block(indexed_headers[i]).txdata) \cap mempool.txstore = {}

\* C16: Query.utxo with utxos_limit = n returns at most n UTXOs or fails with TooPopular,
\* and fails with TooPopular whenever the script has more than n unspent outputs, confirmed
\* or in the mempool.  Stated for the states in which the mempool holds only indexed,
\* unconfirmed transactions.
C16_UtxoLimit ==
    (result = "ok" /\ MempoolSettled) =>
        \A S \in ScriptHashes, n \in Limits :
            LET r == Query_utxo(txstore_db, history_db, cache_db, indexed_headers, mempool, S, n)
                all == Query_utxo(txstore_db, history_db, cache_db, indexed_headers, mempool,
                                  S, utxos_limit)
            IN /\ r.status \in {"ok", "TooPopular"}
               /\ r.status = "ok" => Cardinality(r.utxos) <= n
               /\ (all.status = "ok" /\ Cardinality(all.utxos) > n) => r.status = "TooPopular"

\* the transactions of the script hash: the confirmed ones and those of the mempool history
DistinctTxids(S) ==
    LET confirmed == history_txids(txstore_db, history_db, indexed_headers, S, utxos_limit)
    IN {confirmed[i][1] : i \in DOMAIN confirmed}
       \cup {mempool.history[S][i].txid : i \in DOMAIN mempool.history[S]}

\* C17: get_history fails with TooPopular when the script has more than txs_limit distinct
\* transactions, confirmed plus mempool, and returns all of them otherwise.
C17_HistoryNeverTruncated ==
    result = "ok" =>
        \A S \in ScriptHashes, n \in Limits :
            LET r == get_history(txstore_db, history_db, indexed_headers, mempool, S, n)
            IN IF Cardinality(DistinctTxids(S)) > n
               THEN r.status = "TooPopular"
               ELSE /\ r.status = "ok"
                    /\ {r.history[i][1] : i \in DOMAIN r.history} = DistinctTxids(S)

(***************************************************************************)
(* Electrum RPC: one client connection                                     *)
(***************************************************************************)
electrum_txs_limit == 3
MaxMessages == 3

\* Mempool::has_unconfirmed_parents
has_unconfirmed_parents(m, txid) ==
    txid \in m.txstore /\ \E o \in Range(Tx(txid).input) : o.txid \in m.txstore

\* get_status_hash: Null for an empty history, else the hash of the parts "txid:height:",
\* modelled as the sequence of the parts
get_status_hash(txs, m) ==
    [i \in DOMAIN txs |->
        <<txs[i][1],
          IF txs[i][2] # NoEntry THEN txs[i][2].height
          ELSE IF has_unconfirmed_parents(m, txs[i][1]) THEN -1 ELSE 0>>]

\* what self.query answers in the current state: get_history and get_status_hash of each
\* script hash, and ChainQuery::best_header
Query ==
    [status |-> [S \in ScriptHashes |->
                    LET h == get_history(txstore_db, history_db, indexed_headers, mempool, S,
                                         electrum_txs_limit)
                    IN [ok |-> h.status = "ok",
                        status |-> get_status_hash(h.history, mempool)]],
     best_header |-> HeaderEntry(HeaderTip(indexed_headers), Len(indexed_headers) - 1)]

\* a value written to the client: a reply (kind "result" or "error") or a notification
Value(id, kind, method, scripthash, value) ==
    [id |-> id, kind |-> kind, method |-> method, scripthash |-> scripthash, value |-> value]

\* the request lines a client sends, with ids 7 and 8; 0 is a parameter that is not a
\* script hash
Lines ==
    {[form |-> "command", method |-> method, params |-> << >>, id |-> id] :
        method \in {"blockchain.headers.subscribe", "no.such.method"},
        id \in {7, 8}}
    \cup {[form |-> "command", method |-> method, params |-> <<x>>, id |-> id] :
             method \in {"blockchain.scripthash.subscribe",
                         "blockchain.openassets.scripthash.listunspent"},
             x \in {0, 1, 2},
             id \in {7, 8}}
    \cup {[form |-> f, method |-> "", params |-> << >>, id |-> 0] :
             f \in {"not json", "no method"}}

\* Connection::handle_command; err is the Err that handle_command itself returns, and
\* assets_ok is whether query.utxo and query.open_assets of the open assets handler succeed
handle_command(c, query, method, params, id, assets_ok) ==
    LET bad_hash == params = << >> \/ params[1] \notin ScriptHashes
        Ok(c2, S, v) == [err |-> FALSE, conn |-> c2, reply |-> Value(id, "result", method, S, v)]
        Failed == [err |-> FALSE, conn |-> c, reply |-> Value(id, "error", method, 0, << >>)]
    IN CASE method = "blockchain.headers.subscribe" ->
                Ok([c EXCEPT !.last_header_entry = query.best_header], 0,
                   << <<query.best_header.hash, query.best_header.height>> >>)
         [] method = "blockchain.scripthash.subscribe" ->
                IF bad_hash \/ ~query.status[params[1]].ok THEN Failed
                ELSE Ok([c EXCEPT !.status_hashes =
                                     MapInsert(@, params[1], query.status[params[1]].status)],
                        params[1], query.status[params[1]].status)
         [] method = "blockchain.openassets.scripthash.listunspent" /\ c.enable_open_assets ->
                IF bad_hash \/ ~assets_ok THEN Failed
                ELSE Ok(c, params[1], << >>)
         [] OTHER -> [err |-> TRUE, conn |-> c, reply |-> Value(id, "error", method, 0, << >>)]

\* Connection::update_subscriptions; err when get_history of a subscribed script fails
update_subscriptions_silent(c, query) == [err |-> FALSE, conn |-> c, values |-> {}]
update_subscriptions(c, query) ==
    LET subscribed == DOMAIN c.status_hashes
        header_changed == c.last_header_entry # NoEntry /\ c.last_header_entry # query.best_header
        changed == {S \in subscribed : query.status[S].status # c.status_hashes[S]}
    IN [err |-> \E S \in subscribed : ~query.status[S].ok,
        conn |-> [c EXCEPT !.last_header_entry = IF header_changed THEN query.best_header ELSE @,
                           !.status_hashes = [S \in subscribed |-> query.status[S].status]],
        values |-> {Value(0, "notification", "blockchain.headers.subscribe", 0,
                          << <<query.best_header.hash, query.best_header.height>> >>) :
                       x \in {y \in {0} : header_changed}}
                   \cup {Value(0, "notification", "blockchain.scripthash.subscribe", S,
                               query.status[S].status) : S \in changed}]

\* Connection::new for an accepted client
Connect(enable_open_assets) ==
    /\ pc = "idle" /\ result = "ok"
    /\ conn.state = "none"
    /\ conn' = [NoConnection EXCEPT !.state = "open",
                                    !.enable_open_assets = enable_open_assets]
    /\ UNCHANGED <<storeVars, updateVars, queryVars, countVars, light_mode, base, mempool,
                   mlast, rpc, assets, ledger, call, stats_calls>>

\* Connection::run after handle_replies returned an Err for the message: the stream is shut
\* down
Shutdown(c, msg) == [c EXCEPT !.state = "closed", !.n = @ + 1, !.msg = msg, !.sent = {}]

\* Connection::handle_replies, Message::Request(line)
Request ==
    /\ pc = "idle" /\ result = "ok"
    /\ conn.state = "open"
    /\ conn.n < MaxMessages
    /\ LET query == Query
       IN \E line \in Lines :
          \E assets_ok \in IF line.method = "blockchain.openassets.scripthash.listunspent"
                            THEN BOOLEAN ELSE {TRUE} :
             LET r == handle_command(conn, query, line.method, line.params, line.id, assets_ok)
             IN conn' = IF line.form # "command" \/ r.err
                        THEN Shutdown(conn, line)
                        ELSE [r.conn EXCEPT !.n = @ + 1, !.msg = line, !.sent = {r.reply}]
    /\ UNCHANGED <<storeVars, updateVars, queryVars, countVars, light_mode, base, mempool,
                   mlast, rpc, assets, ledger, call, stats_calls>>

\* Connection::handle_replies, Message::PeriodicUpdate
PeriodicUpdate ==
    /\ pc = "idle" /\ result = "ok"
    /\ conn.state = "open"
    /\ conn.n < MaxMessages
    /\ LET r == update_subscriptions(conn, Query)
       IN conn' = IF r.err
                  THEN Shutdown(conn, [NoConnection.msg EXCEPT !.form = "periodic"])
                  ELSE [r.conn EXCEPT !.n = @ + 1,
                                      !.msg = [NoConnection.msg EXCEPT !.form = "periodic"],
                                      !.sent = r.values]
    /\ UNCHANGED <<storeVars, updateVars, queryVars, countVars, light_mode, base, mempool,
                   mlast, rpc, assets, ledger, call, stats_calls>>

NextConn ==
    \/ \E h \in BlockHashes : Indexer_update(h)
    \/ \E enable_open_assets \in BOOLEAN : Connect(enable_open_assets)
    \/ Request
    \/ PeriodicUpdate

SpecConn == Init /\ [][NextConn]_vars

\* the last message was a request whose method handle_command does not dispatch
UnknownMethod ==
    /\ conn.msg.form = "command"
    /\ \/ conn.msg.method = "no.such.method"
       \/ /\ conn.msg.method = "blockchain.openassets.scripthash.listunspent"
          /\ ~conn.enable_open_assets

\* C18: a request whose method is unknown, an openassets method while open assets are
\* disabled included, is answered with an error response that carries the request's id.
C18_UnknownMethodAnswered ==
    UnknownMethod => \E v \in conn.sent : v.kind = "error" /\ v.id = conn.msg.id

\* C19: after a request that fails the connection stays open.  Stated for the failures other
\* than the unknown method of C18: invalid parameters, too popular, a failing handler, and a
\* request line that is not a well-formed command.
C19_FailedRequestKeepsConnection ==
    (/\ ~UnknownMethod
     /\ \/ conn.msg.form \in {"not json", "no method"}
        \/ conn.msg.form = "command" /\ \E v \in conn.sent : v.kind = "error")
    => conn.state = "open"

\* what a periodic update has to emit and record, given the connection before it
PeriodicUpdateEmits(c, c2, query) ==
    LET Notified(values, method, S) ==
            \E v \in values : v.kind = "notification" /\ v.method = method /\ v.scripthash = S
    IN
    /\ Notified(c2.sent, "blockchain.headers.subscribe", 0)
          <=> (c.last_header_entry # NoEntry /\ c.last_header_entry # query.best_header)
    /\ \A S \in DOMAIN c.status_hashes :
          query.status[S].ok =>
             /\ Notified(c2.sent, "blockchain.scripthash.subscribe", S)
                   <=> query.status[S].status # c.status_hashes[S]
             /\ \A v \in c2.sent :
                   (v.kind = "notification" /\ v.scripthash = S)
                      => v.value = query.status[S].status
             /\ S \in DOMAIN c2.status_hashes
             /\ c2.status_hashes[S] = query.status[S].status

\* C20 as stated: every periodic update emits a scripthash notification for a subscribed
\* script iff its new status hash differs from the one last reported, and records the new
\* one; it emits a header notification iff the client subscribed to headers and the best
\* header differs from the one last reported.
C20_EveryPeriodicUpdateNotifies ==
    [][(conn.state = "open" /\ conn'.n = conn.n + 1 /\ conn'.msg.form = "periodic")
          => PeriodicUpdateEmits(conn, conn', Query)]_vars

\* C20, amended: a periodic update that completes emits and records as stated; a periodic
\* update in which get_history of a subscribed script fails emits nothing and the
\* connection is shut down.
C20_CompletedPeriodicUpdateNotifies ==
    [][(conn.state = "open" /\ conn'.n = conn.n + 1 /\ conn'.msg.form = "periodic")
          => IF \E S \in DOMAIN conn.status_hashes : ~Query.status[S].ok
             THEN conn'.state = "closed" /\ conn'.sent = {}
             ELSE conn'.state = "open" /\ PeriodicUpdateEmits(conn, conn', Query)]_vars

C20_Witness ==
    /\ conn.state = "open"
    /\ conn.msg.form = "periodic"
    /\ \E v \in conn.sent : v.kind = "notification" /\ v.method = "blockchain.headers.subscribe"
    /\ \E v \in conn.sent : /\ v.kind = "notification"
                            /\ v.method = "blockchain.scripthash.subscribe"
                            /\ v.scripthash = 2
    /\ conn.status_hashes[2] # << >>

(***************************************************************************)
(* run_server and the Electrum RPC server: main loop, notifier, rpc thread, *)
(* peer threads and their readers                                          *)
(***************************************************************************)
chainVars == <<storeVars, updateVars, queryVars, countVars, light_mode, base, mempool, mlast, conn,
              assets, ledger, call, stats_calls>>

\* the clients that send request lines; the others connect and listen
Talkers == {1}

\* SyncSender::try_send to the channel of a peer; the receiver is dropped with the Connection
try_send_dropping_full(p) ==
    IF p.thread = "exited" \/ Len(p.chan) >= ChannelCapacity THEN "Disconnected" ELSE "Ok"
try_send(p) ==
    IF p.thread = "exited" THEN "Disconnected"
    ELSE IF Len(p.chan) >= ChannelCapacity THEN "Full" ELSE "Ok"

\* run_server: one iteration of the main loop in which the update indexes a new transaction
\* of the subscribed script (version counts them) and that ends with electrum_server.notify()
MainIteration ==
    /\ rpc.main = "loop"
    /\ rpc.version < MaxPeriodic
    /\ rpc' = [rpc EXCEPT !.version = @ + 1, !.notification = Append(@, "Periodic")]
    /\ UNCHANGED chainVars

\* run_server: signal.wait returns an Interrupt, the REST server is stopped, the loop breaks;
\* electrum_server is dropped, and Drop for RPC sends Exit and joins the rpc thread
MainInterrupt ==
    /\ rpc.main = "loop"
    /\ rpc' = [rpc EXCEPT !.main = "dropping", !.rest = "stopped",
                          !.notification = Append(@, "Exit")]
    /\ UNCHANGED chainVars

\* Drop for RPC: handle.join() returns
MainReturn ==
    /\ rpc.main = "dropping"
    /\ rpc.server = "finished"
    /\ rpc' = [rpc EXCEPT !.main = "returned"]
    /\ UNCHANGED chainVars

\* start_notifier: one message of the notification channel, under the senders lock
Notifier ==
    /\ rpc.notification # << >>
    /\ rpc.server # "closing"
    /\ LET kept == SelectSeq(rpc.senders, LAMBDA c : try_send(rpc.peer[c]) # "Disconnected")
       IN rpc' = IF Head(rpc.notification) = "Periodic"
                 THEN [rpc EXCEPT !.notification = Tail(@),
                                  !.senders = kept,
                                  !.peer = [c \in Clients |->
                                               IF c \in Range(rpc.senders)
                                                  /\ try_send(rpc.peer[c]) = "Ok"
                                               THEN [@[c] EXCEPT !.chan =
                                                                    Append(@, "PeriodicUpdate")]
                                               ELSE @[c]]]
                 ELSE [rpc EXCEPT !.notification = Tail(@), !.acceptor = Append(@, 0)]
    /\ UNCHANGED chainVars

\* start_acceptor: listener.accept() returns the connection of a client
Accept(c) ==
    /\ rpc.peer[c].thread = "none"
    /\ rpc' = [rpc EXCEPT !.acceptor = Append(@, c), !.peer[c].thread = "accepted"]
    /\ UNCHANGED chainVars

\* the rpc thread: acceptor.receiver().recv() yields a connection (a peer thread is spawned
\* and the finished threads are joined) or None (the senders are locked for the Done loop)
ServerAccept ==
    /\ rpc.server = "accepting"
    /\ rpc.acceptor # << >>
    /\ LET c == Head(rpc.acceptor)
       IN rpc' = IF c = 0
                 THEN [rpc EXCEPT !.acceptor = Tail(@), !.server = "closing",
                                  !.todo = rpc.senders]
                 ELSE [rpc EXCEPT !.acceptor = Tail(@), !.peer[c].thread = "spawned",
                                  !.threads = {d \in @ \cup {c} :
                                                  rpc.peer[d].thread # "exited"}]
    /\ UNCHANGED chainVars

\* the rpc thread: sender.send(Message::Done) to the next sender, a blocking send
ServerClose ==
    /\ rpc.server = "closing"
    /\ IF rpc.todo = << >>
       THEN rpc' = [rpc EXCEPT !.server = "joining"]
       ELSE LET c == Head(rpc.todo)
            IN /\ try_send(rpc.peer[c]) # "Full"
               /\ rpc' = [rpc EXCEPT !.todo = Tail(@),
                                     !.peer[c].chan = IF try_send(rpc.peer[c]) = "Ok"
                                                      THEN Append(@, "Done") ELSE @]
    /\ UNCHANGED chainVars

\* the rpc thread: thread.join() of every peer thread
ServerJoin ==
    /\ rpc.server = "joining"
    /\ \A c \in rpc.threads : rpc.peer[c].thread = "exited"
    /\ rpc' = [rpc EXCEPT !.server = "finished", !.threads = {}]
    /\ UNCHANGED chainVars

\* a peer thread: Connection::new, the sender is pushed under the lock, run spawns the reader
PeerStart(c) ==
    /\ rpc.peer[c].thread = "spawned"
    /\ rpc.server # "closing"
    /\ rpc' = [rpc EXCEPT !.senders = Append(@, c), !.peer[c].thread = "handling",
                          !.peer[c].reader = "reading"]
    /\ UNCHANGED chainVars

\* handle_replies: one message of the channel (the first request of a client subscribes to
\* the script, the later ones are other commands); when it returns, run shuts the socket down
Handle(c) ==
    /\ rpc.peer[c].thread = "handling"
    /\ rpc.peer[c].chan # << >>
    /\ LET msg == Head(rpc.peer[c].chan)
           p == [rpc.peer[c] EXCEPT !.chan = Tail(@)]
       IN rpc' = [rpc EXCEPT !.peer[c] =
                     CASE msg = "Request" ->
                             IF p.status = -1 THEN [p EXCEPT !.status = rpc.version] ELSE p
                       [] msg = "PeriodicUpdate" ->
                             IF p.status # -1 THEN [p EXCEPT !.status = rpc.version] ELSE p
                       [] OTHER -> [p EXCEPT !.thread = "joining"]]
    /\ UNCHANGED chainVars

\* run: child.join() returns, the Connection is dropped and the thread ends
PeerJoin(c) ==
    /\ rpc.peer[c].thread = "joining"
    /\ rpc.peer[c].reader = "done"
    /\ rpc' = [rpc EXCEPT !.peer[c].thread = "exited"]
    /\ UNCHANGED chainVars

\* handle_requests: read_until returns a line of the client, or nothing when the client
\* disconnected or the socket was shut down, and tx.send sends the message; the reader is
\* blocked in the send while the channel is full
ReaderRead(c) ==
    /\ rpc.peer[c].reader = "reading"
    /\ \E line \in {"Request", "Bad", "Done"} :
          /\ rpc.peer[c].thread = "joining" => line = "Done"
          /\ line # "Done" => c \in Talkers
          /\ line = "Bad" => rpc.peer[c].bad < MaxBadLines /\ rpc.peer[c].chan = << >>
          /\ rpc' = [rpc EXCEPT !.peer[c] =
                        IF Len(@.chan) < ChannelCapacity
                        THEN [@ EXCEPT !.chan = Append(@, line),
                                       !.reader = IF line = "Done" THEN "done" ELSE "reading",
                                       !.bad = IF line = "Bad" THEN @ + 1 ELSE @]
                        ELSE [@ EXCEPT !.reader = "sending", !.pending = line]]
    /\ UNCHANGED chainVars

\* handle_requests: the blocked tx.send goes through
ReaderSend(c) ==
    /\ rpc.peer[c].reader = "sending"
    /\ Len(rpc.peer[c].chan) < ChannelCapacity
    /\ rpc' = [rpc EXCEPT !.peer[c].chan = Append(@, rpc.peer[c].pending),
                          !.peer[c].pending = "none",
                          !.peer[c].reader = IF rpc.peer[c].pending = "Done" THEN "done"
                                             ELSE "reading"]
    /\ UNCHANGED chainVars

NextRpc ==
    \/ MainIteration
    \/ MainInterrupt
    \/ MainReturn
    \/ Notifier
    \/ \E c \in Clients : Accept(c)
    \/ ServerAccept
    \/ ServerClose
    \/ ServerJoin
    \/ \E c \in Clients : PeerStart(c)
    \/ \E c \in Clients : Handle(c)
    \/ \E c \in Clients : PeerJoin(c)
    \/ \E c \in Clients : ReaderRead(c)
    \/ \E c \in Clients : ReaderSend(c)

\* every thread of the server keeps running; a client may stay silent for ever, but a read
\* from a socket that was shut down returns
FairRpc ==
    /\ WF_vars(MainReturn)
    /\ WF_vars(Notifier)
    /\ WF_vars(ServerAccept)
    /\ WF_vars(ServerClose)
    /\ WF_vars(ServerJoin)
    /\ \A c \in Clients :
          /\ WF_vars(PeerStart(c))
          /\ WF_vars(Handle(c))
          /\ WF_vars(PeerJoin(c))
          /\ WF_vars(ReaderSend(c))
          /\ WF_vars(rpc.peer[c].thread = "joining" /\ ReaderRead(c))

SpecRpc == Init /\ [][NextRpc]_vars /\ FairRpc

\* the client subscribed before the latest transaction of its script was confirmed
Stale(c) ==
    /\ rpc.peer[c].thread = "handling"
    /\ rpc.peer[c].status # -1
    /\ rpc.peer[c].status # rpc.version

PeriodicStep == rpc.notification # << >> /\ Head(rpc.notification) = "Periodic" /\ Notifier

\* C21: a client that subscribed to a script before a transaction of the script was confirmed
\* gets the next periodic event of the main loop on its channel (and with it the notification
\* of the new status), whatever the number of messages queued on the channel
C21_PeriodicEventReachesSubscriber ==
    [][PeriodicStep =>
          \A c \in Range(rpc.senders) :
             Stale(c) => rpc'.peer[c].chan = Append(rpc.peer[c].chan, "PeriodicUpdate")]_vars

\* C22: the notifier never waits for a client: a periodic event is one non-blocking send per
\* registered channel, the sender is dropped exactly when its receiver is gone, and every
\* connected client whose channel has room gets the event, the others get nothing
C22_NotifierNeverBlocks ==
    /\ [](rpc.notification # << >> => ENABLED Notifier)
    /\ [][PeriodicStep =>
             /\ rpc'.senders = SelectSeq(rpc.senders, LAMBDA c : rpc.peer[c].thread # "exited")
             /\ \A c \in Clients :
                   rpc'.peer[c].chan =
                      IF /\ c \in Range(rpc.senders)
                         /\ rpc.peer[c].thread # "exited"
                         /\ Len(rpc.peer[c].chan) < ChannelCapacity
                      THEN Append(rpc.peer[c].chan, "PeriodicUpdate")
                      ELSE rpc.peer[c].chan]_vars

\* a periodic event was sent around while the channel of one registered client was full: that
\* client got nothing and kept its sender, the client with room got the event
C22_Witness ==
    /\ rpc.notification = << >>
    /\ rpc.version = 1
    /\ rpc.peer[2].thread = "handling"
    /\ rpc.peer[2].chan = <<"PeriodicUpdate">>
    /\ rpc.senders = <<1, 2>>
    /\ Len(rpc.peer[1].chan) = ChannelCapacity
    /\ "PeriodicUpdate" \notin Range(rpc.peer[1].chan)

\* C23: once the handler of a connection has stopped, the connection is closed in the end:
\* the socket is shut down, the reader ends and Connection::run returns
C23_StoppedConnectionCloses ==
    \A c \in Clients : (rpc.peer[c].thread = "joining") ~> (rpc.peer[c].thread = "exited")

\* C24: after SIGINT or SIGTERM the REST server is stopped and dropping the RPC server joins
\* every connection thread and returns
C24_GracefulShutdown ==
    (rpc.main = "dropping") ~> (rpc.main = "returned" /\ rpc.rest = "stopped"
                                 /\ \A c \in Clients : rpc.peer[c].thread \in {"none", "exited"})


(***************************************************************************)
(* run_server: the updates of the main thread and the errors they return   *)
(***************************************************************************)
\* run_server: indexer.update(&daemon)? before the loop and in an iteration of the loop;
\* base remembers the store as the update found it
MainUpdateStart(h) ==
    /\ rpc.main = "loop"
    /\ result # "err"
    /\ nupdates < MaxMainUpdates
    /\ nupdates' = nupdates + 1
    /\ UpdateStartBody(h)
    /\ base' = [crashed |-> FALSE, at |-> "idle", tip |-> h, txstore |-> txstore_db,
                history |-> history_db, headers |-> indexed_headers,
                added |-> added_blockhashes, indexed |-> indexed_blockhashes]
    /\ UNCHANGED <<nqueries, mempool, mlast, conn, rpc, assets, ledger, call, stats_calls>>

\* run_server: the ? after getbestblockhash or update returns the error from run_server, the
\* RPC server is dropped on the way out and main ends the process with exit code 1
MainError ==
    /\ rpc.main = "loop"
    /\ pc = "idle"
    /\ result = "err"
    /\ rpc' = [rpc EXCEPT !.main = "dropping", !.notification = Append(@, "Exit")]
    /\ UNCHANGED chainVars

NextMain ==
    \/ \E h \in BlockHashes : MainUpdateStart(h)
    \/ rpc.main = "loop" /\ result # "err" /\ DaemonError
    \/ FetchStart
    \/ FetchError
    \/ \E k \in 1..Cardinality(BlockHashes) : Add(k)
    \/ AddDone
    \/ \E k \in 1..Cardinality(BlockHashes) : Index(k)
    \/ IndexDone
    \/ WriteTip
    \/ ApplyHeaders
    \/ MainError

SpecMain == Init /\ [][NextMain]_vars

\* C25: when an update (or the tip poll) of an iteration of the main loop fails, the header
\* list and the stored tip are as before the update and the main loop goes on polling
C25_FailedUpdateKeepsLooping ==
    /\ [][(result # "err" /\ result' = "err") =>
             <<indexed_headers', txstore_db'.t>> =
                IF pc = "idle" THEN <<indexed_headers, txstore_db.t>>
                ELSE <<base.headers, base.txstore.t>>]_vars
    /\ [][(from = "Tapyrusd" /\ result = "err") => rpc'.main = "loop"]_vars

(***************************************************************************)
(* Broadcasts and mempool updates                                          *)
(***************************************************************************)
\* C26: under every interleaving of add_by_txid (after a broadcast) and Mempool.update, every
\* transaction of the mempool has its history, color, edge, fee and overview entries recorded
\* exactly once
C26_MempoolEntriesOnce ==
    \A t \in mempool.txstore :
       /\ \A S \in ScriptHashes :
             SelectSeq(mempool.history[S], LAMBDA e : e.txid = t)
                = MempoolFunding(t, S) \o MempoolSpending(t, S)
       /\ SelectSeq(mempool.colors, LAMBDA e : e.txid = t) = colored_tx_history(t)
       /\ {e \in mempool.edges : e.txid = t}
             = {[outpoint |-> Tx(t).input[i], txid |-> t, vin |-> i - 1] :
                i \in DOMAIN Tx(t).input}
       /\ Cardinality({f \in mempool.feeinfo : f.txid = t}) = 1
       /\ Cardinality({o \in mempool.overviews : o.txid = t}) = 1

(***************************************************************************)
(* Open assets: compute_assets                                             *)
(***************************************************************************)
MaxPrevOuts == 2
MaxOutputs == 3
MaxQuantity == 2
Scripts == {1, 2}

\* AssetId::new(script_pubkey, network_type): a hash of the script
AssetId_new(script) == 10 + script
AssetIds == {AssetId_new(s) : s \in Scripts}

\* prev_outs: (TxOut, Option<OpenAsset>) of every input; an asset has a positive quantity
PrevOuts ==
    [script : Scripts,
     open_asset : {None} \cup {OpenAsset(a, n) : a \in AssetIds, n \in 1..MaxQuantity}]

SeqsUpTo(S, n) == UNION {[1..k -> S] : k \in 0..n}

\* the while loop of one transfer output: the units the output still needs, the position
\* of input_enum (Len + 1 once next() returned None), input_units_left and asset_id
RECURSIVE TransferUnits(_, _, _, _, _)
TransferUnits(prev_outs, output_units_left, current_input, input_units_left, asset_id) ==
    IF output_units_left = 0
    THEN [status |-> "ok", current_input |-> current_input,
          input_units_left |-> input_units_left, asset_id |-> asset_id]
    ELSE LET next == IF input_units_left # 0 THEN current_input
                     ELSE IF current_input > Len(prev_outs) THEN current_input
                     ELSE current_input + 1
             colored == next \in DOMAIN prev_outs /\ prev_outs[next].open_asset # None
             left == IF input_units_left = 0 /\ colored
                     THEN prev_outs[next].open_asset.asset_quantity
                     ELSE input_units_left
             progress == IF left < output_units_left THEN left ELSE output_units_left
         IN IF colored
            THEN IF asset_id # 0 /\ asset_id # prev_outs[next].open_asset.asset_id
                 THEN [status |-> "panic", current_input |-> next,
                       input_units_left |-> left - progress, asset_id |-> asset_id]
                 ELSE TransferUnits(prev_outs, output_units_left - progress, next,
                                    left - progress, prev_outs[next].open_asset.asset_id)
            ELSE IF next > Len(prev_outs)
                 THEN [status |-> "loops", current_input |-> next,
                       input_units_left |-> left, asset_id |-> asset_id]
                 ELSE TransferUnits(prev_outs, output_units_left, next, left, asset_id)

\* the for loop over the transfer outputs i (counted from 0) up to len(quantities)
RECURSIVE TransferOutputs(_, _, _, _, _, _)
TransferOutputs(prev_outs, quantities, i, current_input, input_units_left, acc) ==
    IF i > Len(quantities)
    THEN [status |-> "ok", result |-> acc]
    ELSE LET quantity == quantities[i]
             t == TransferUnits(prev_outs, quantity, current_input, input_units_left, 0)
         IN IF t.status # "ok"
            THEN [status |-> t.status, result |-> << >>]
            ELSE TransferOutputs(prev_outs, quantities, i + 1, t.current_input,
                                 t.input_units_left,
                                 Append(acc, IF t.asset_id # 0 /\ quantity > 0
                                             THEN OpenAsset(t.asset_id, quantity)
                                             ELSE None))

\* compute_assets; outputs is txn.output.len(), the indexes of quantities start at 1
compute_assets(prev_outs, marker_output_index, outputs, quantities) ==
    IF Len(quantities) > outputs - 1 \/ prev_outs = << >>
    THEN [status |-> "assert", result |-> << >>]
    ELSE LET issuance_asset_id == AssetId_new(prev_outs[1].script)
             issuance == [i \in 1..marker_output_index |->
                             IF i <= Len(quantities) /\ quantities[i] > 0
                             THEN OpenAsset(issuance_asset_id, quantities[i])
                             ELSE None]
             transfer == TransferOutputs(prev_outs, quantities, marker_output_index + 1, 0, 0,
                                         issuance \o <<None>>)
         IN IF transfer.status # "ok"
            THEN transfer
            ELSE [status |-> "ok",
                  result |-> transfer.result
                             \o [i \in 1..(outputs - Len(quantities) - 1) |-> None]]

\* get_open_assets_colored_outputs: compute_assets for a transaction whose output
\* marker_output_index carries the marker with the quantities
ComputeAssets ==
    /\ assets.status = "none"
    /\ \E prev_outs \in SeqsUpTo(PrevOuts, MaxPrevOuts) \ {<< >>},
          outputs \in 1..MaxOutputs :
          \E marker_output_index \in 0..(outputs - 1),
             quantities \in SeqsUpTo(0..MaxQuantity, outputs - 1) :
             LET r == compute_assets(prev_outs, marker_output_index, outputs, quantities)
             IN assets' = [prev_outs |-> prev_outs,
                           marker_output_index |-> marker_output_index,
                           outputs |-> outputs, quantities |-> quantities,
                           status |-> r.status, result |-> r.result]
    /\ UNCHANGED <<storeVars, updateVars, queryVars, countVars, light_mode, base, mempool,
                   mlast, conn, rpc, ledger, call, stats_calls>>

NextAssets == ComputeAssets

SpecAssets == Init /\ [][NextAssets]_vars

\* the asset units of the previous outputs in input order, one asset id per unit
RECURSIVE InputUnits(_)
InputUnits(prev_outs) ==
    IF prev_outs = << >> THEN << >>
    ELSE [k \in 1..Head(prev_outs).open_asset.asset_quantity |->
             Head(prev_outs).open_asset.asset_id] \o InputUnits(Tail(prev_outs))

\* the units that the transfer outputs before output i take
RECURSIVE UnitsBefore(_, _, _)
UnitsBefore(quantities, marker, i) ==
    IF i <= marker + 1 THEN 0 ELSE quantities[i - 1] + UnitsBefore(quantities, marker, i - 1)

\* the units of transfer output i, as far as the inputs have them
UnitsOf(a, i) ==
    LET units == InputUnits(a.prev_outs)
        off == UnitsBefore(a.quantities, a.marker_output_index, i)
        last == IF off + a.quantities[i] < Len(units) THEN off + a.quantities[i] ELSE Len(units)
    IN SubSeq(units, off + 1, last)

IsTransfer(a, i) == i > a.marker_output_index /\ i <= Len(a.quantities)

\* what the rule gives output i (counted from 0)
Assigned(a, i) ==
    IF i < a.marker_output_index
    THEN IF i + 1 <= Len(a.quantities) /\ a.quantities[i + 1] > 0
         THEN OpenAsset(AssetId_new(a.prev_outs[1].script), a.quantities[i + 1])
         ELSE None
    ELSE IF IsTransfer(a, i) /\ a.quantities[i] > 0 /\ UnitsOf(a, i) # << >>
    THEN OpenAsset(UnitsOf(a, i)[1], a.quantities[i])
    ELSE None

\* no transfer output takes units of two asset ids
OneAssetPerTransfer(a) ==
    \A i \in 0..(a.outputs - 1) :
       IsTransfer(a, i) => Cardinality(Range(UnitsOf(a, i))) <= 1

\* C27: compute_assets gives every issuance output (i < marker) the issuance asset id with
\* quantities[i], or none when that is 0 or absent, none to the marker output, to every
\* transfer output (marker < i <= len(quantities)) quantities[i-1] with the asset id of the
\* input units it takes in input order, and none to every output beyond len(quantities)
C27_ComputeAssetsAssigns ==
    (assets.status # "none" /\ OneAssetPerTransfer(assets)) =>
       /\ assets.status = "ok"
       /\ \A i \in 0..(assets.outputs - 1) : assets.result[i + 1] = Assigned(assets, i)

(***************************************************************************)
(* The heights of the Electrum history                                     *)
(***************************************************************************)
\* the transactions of a script with their block and the height reported for each
ReportedHeights(S) ==
    LET h == get_history(txstore_db, history_db, indexed_headers, mempool, S, electrum_txs_limit)
        st == get_status_hash(h.history, mempool)
    IN IF h.status = "ok"
       THEN {[txid |-> h.history[i][1], blockid |-> h.history[i][2], height |-> st[i][2]] :
             i \in DOMAIN h.history}
       ELSE {}

\* C28: a confirmed transaction is reported with its block height, a positive integer, a
\* mempool transaction with 0 when no input spends a mempool transaction and with -1 when
\* one does; a confirmed and an unconfirmed transaction never have the same reported height
C28_HeightEncoding ==
    \A S \in ScriptHashes :
       /\ \A r \in ReportedHeights(S) :
             IF r.blockid # NoEntry
             THEN r.height = r.blockid.height /\ r.height > 0
             ELSE r.height = IF \E o \in Range(Tx(r.txid).input) : o.txid \in mempool.txstore
                             THEN -1 ELSE 0
       /\ \A r1, r2 \in ReportedHeights(S) :
             (r1.blockid # NoEntry /\ r2.blockid = NoEntry) => r1.height # r2.height

(***************************************************************************)
(* Colored coins: the color history of confirmed transactions              *)
(***************************************************************************)
MaxLedgerTxs == 3
MaxTxOuts == 2
Color2 == 2

\* the outputs a confirmed transaction may have
LedgerTxOuts ==
    {TxOut(1, Spk(DefaultColor, 1)), TxOut(1, Spk(Color1, 1)), TxOut(2, Spk(Color1, 1)),
     TxOut(1, Spk(Color2, 1))}

\* a set of outputs in some order
RECURSIVE SeqOf(_)
SeqOf(S) == IF S = {} THEN << >> ELSE LET x == CHOOSE y \in S : TRUE IN <<x>> \o SeqOf(S \ {x})

\* colored_tx_history for the previous outputs and the outputs of a transaction: the
\* entries of every color the transaction spends or pays
colored_history(txid, previous, output) ==
    LET colors == {o.script_pubkey.color_id : o \in Range(previous) \cup Range(output)}
                     \ {DefaultColor}
        entries(c) == LET infos == create_history_info(txid, get_amounts(previous, c),
                                                       get_amounts(output, c))
                      IN [k \in DOMAIN infos |-> [color_id |-> c, txinfo |-> infos[k]]]
        RECURSIVE All(_)
        All(cs) == IF cs = {} THEN << >>
                   ELSE LET c == CHOOSE x \in cs : TRUE IN entries(c) \o All(cs \ {c})
    IN All(colors)

\* index_confirmed_colored_tx for a transaction whose previous outputs are all resolved
ConfirmTx ==
    /\ ledger.n < MaxLedgerTxs
    /\ \E ins \in SUBSET ledger.unspent, output \in SeqsUpTo(LedgerTxOuts, MaxTxOuts) \ {<< >>} :
          /\ Cardinality(ins) <= MaxTxOuts
          /\ LET txid == ledger.n + 1
                 previous == [i \in DOMAIN SeqOf(ins) |-> SeqOf(ins)[i].txout]
             IN ledger' = [n |-> txid,
                           unspent |-> (ledger.unspent \ ins)
                                       \cup {[outpoint |-> OutPoint(txid, i - 1),
                                              txout |-> output[i]] : i \in DOMAIN output},
                           rows |-> ledger.rows \o colored_history(txid, previous, output)]
    /\ UNCHANGED <<storeVars, updateVars, queryVars, countVars, light_mode, base, mempool,
                   mlast, conn, rpc, assets, call, stats_calls>>

NextColors == ConfirmTx

SpecColors == Init /\ [][NextColors]_vars

\* the sum of the values of the rows of one kind for a color
RECURSIVE RowsValue(_, _, _)
RowsValue(rows, c, tag) ==
    IF rows = << >> THEN 0
    ELSE (IF Head(rows).color_id = c /\ Head(rows).txinfo.tag = tag
          THEN Head(rows).txinfo.value ELSE 0) + RowsValue(Tail(rows), c, tag)

\* C29: for every color id, the Issuing values minus the Burning values of the color history
\* entries of the confirmed transactions are the total value of the unspent outputs of
\* that color
C29_IssuedMinusBurnedIsUnspent ==
    \A c \in {Color1, Color2} :
       RowsValue(ledger.rows, c, "Issuing") - RowsValue(ledger.rows, c, "Burning")
          = get_amounts([i \in DOMAIN SeqOf(ledger.unspent) |-> SeqOf(ledger.unspent)[i].txout],
                        c)

\* colored coins were issued, part of them was burned and part is unspent
C29_Witness ==
    /\ RowsValue(ledger.rows, Color1, "Issuing") = 2
    /\ RowsValue(ledger.rows, Color1, "Burning") = 1
    /\ \E r \in Range(ledger.rows) : r.txinfo.tag = "Transferring" /\ r.color_id = Color1
    /\ \E u \in ledger.unspent : u.txout.script_pubkey.color_id = Color1

(***************************************************************************)
(* Spend edges                                                             *)
(***************************************************************************)
\* ChainQuery::lookup_spend: the first edge row of the outpoint, in key order, whose spending
\* transaction has a confirming block
lookup_spend(tdb, hdb, headers, outpoint) ==
    LET edges == {e \in hdb.S : /\ e.funding_txid = outpoint.txid
                                /\ e.funding_vout = outpoint.vout
                                /\ tx_confirming_block(tdb, headers, e.spending_txid) # NoEntry}
    IN IF edges = {} THEN [txid |-> 0, vin |-> 0, confirmed |-> NoEntry]
       ELSE LET e == CHOOSE x \in edges :
                        \A y \in edges :
                           \/ x.spending_txid < y.spending_txid
                           \/ x.spending_txid = y.spending_txid
                              /\ x.spending_vin <= y.spending_vin
            IN [txid |-> e.spending_txid, vin |-> e.spending_vin,
                confirmed |-> tx_confirming_block(tdb, headers, e.spending_txid)]

\* C30: after every sequence of successful updates, reorgs included, the edge rows of history
\* are the rows S|O|txid(T)|vin(T) of the outpoints O that a transaction T of the best chain
\* spends, one for each, and lookup_spend(O) returns T
C30_EdgeRowsAreBestChainSpends ==
    (pc = "idle" /\ result = "ok") =>
       /\ history_db.S = UNION {EdgeRows(t) : t \in ChainTxids(indexed_headers)}
       /\ \A t \in ChainTxids(indexed_headers) :
             \A i \in DOMAIN Tx(t).input :
                LET spend == lookup_spend(txstore_db, history_db, indexed_headers,
                                          Tx(t).input[i])
                IN spend.txid = t /\ spend.vin = i - 1

(***************************************************************************)
(* The fee histogram of the mempool                                        *)
(***************************************************************************)
VSIZE_BIN_WIDTH == 50000
MaxEntries == 4

\* TxFeeInfo: fee_per_vbyte and vsize of a mempool transaction
FeeInfos == [fee_per_vbyte : {1, 2, 3}, vsize : {20000, 30000, 60000}]

\* the for loop of make_fee_histogram over the entries in descending order of fee rate
RECURSIVE HistogramLoop(_, _, _, _)
HistogramLoop(entries, histogram, bin_size, last_fee_rate) ==
    IF entries = << >>
    THEN IF bin_size > 0 THEN Append(histogram, <<last_fee_rate, bin_size>>) ELSE histogram
    ELSE LET e == Head(entries)
             push == bin_size > VSIZE_BIN_WIDTH /\ last_fee_rate # e.fee_per_vbyte
         IN HistogramLoop(Tail(entries),
                          IF push THEN Append(histogram, <<last_fee_rate, bin_size>>)
                          ELSE histogram,
                          (IF push THEN 0 ELSE bin_size) + e.vsize,
                          e.fee_per_vbyte)

\* make_fee_histogram that leaves out the last bin
make_fee_histogram_without_rest(entries) ==
    LET sorted == SortSeq(entries, LAMBDA a, b : a.fee_per_vbyte > b.fee_per_vbyte)
        h == HistogramLoop(sorted, << >>, 0, 0)
    IN SubSeq(h, 1, Len(h) - 1)

\* make_fee_histogram: sort by fee rate, walk from the highest rate down
make_fee_histogram(entries) ==
    HistogramLoop(SortSeq(entries, LAMBDA a, b : a.fee_per_vbyte > b.fee_per_vbyte),
                  << >>, 0, 0)

\* BacklogStats::new: make_fee_histogram(feeinfo.values().collect())
MakeFeeHistogram ==
    /\ call.fn = "none"
    /\ \E entries \in SeqsUpTo(FeeInfos, MaxEntries) :
          call' = [fn |-> "make_fee_histogram", args |-> entries,
                   result |-> make_fee_histogram(entries)]
    /\ UNCHANGED <<storeVars, updateVars, queryVars, countVars, light_mode, base, mempool,
                   mlast, conn, rpc, assets, ledger, stats_calls>>

NextFees == MakeFeeHistogram

SpecFees == Init /\ [][NextFees]_vars

\* the entries of a call that pay at least the rate lo and less than the rate hi
EntriesBetween(entries, lo, hi) ==
    SelectSeq(entries, LAMBDA e : e.fee_per_vbyte >= lo /\ e.fee_per_vbyte < hi)

RECURSIVE TotalVsize(_)
TotalVsize(entries) ==
    IF entries = << >> THEN 0 ELSE Head(entries).vsize + TotalVsize(Tail(entries))

RECURSIVE BinsTotal(_)
BinsTotal(histogram) ==
    IF histogram = << >> THEN 0 ELSE Head(histogram)[2] + BinsTotal(Tail(histogram))

\* labels strictly decreasing, each the lowest rate of the entries of its bin, each bin the
\* vsize of the entries from its label up to the label before, the bins sum to the total
HistogramShape(entries, histogram) ==
    /\ \A i \in DOMAIN histogram :
          LET hi == IF i = 1 THEN 4 ELSE histogram[i - 1][1]
              bin == EntriesBetween(entries, histogram[i][1], hi)
          IN /\ histogram[i][1] < hi
             /\ \E e \in Range(bin) : e.fee_per_vbyte = histogram[i][1]
             /\ histogram[i][2] = TotalVsize(bin)
    /\ BinsTotal(histogram) = TotalVsize(entries)

\* C31 as stated: every bin of the histogram covers at least 50,000 virtual bytes, each label
\* is the lowest fee rate of its bin, labels strictly decrease, the bins sum to the total vsize
C31_EveryBinIsWide ==
    call.fn = "make_fee_histogram" =>
       /\ HistogramShape(call.args, call.result)
       /\ \A i \in DOMAIN call.result : call.result[i][2] >= VSIZE_BIN_WIDTH

\* C31: every bin but the last covers more than 50,000 virtual bytes, the last bin holds what
\* is left (at least one entry); each label is the lowest fee rate of its bin, labels strictly
\* decrease and the bins sum to the total vsize
C31_EveryBinButTheLastIsWide ==
    call.fn = "make_fee_histogram" =>
       /\ HistogramShape(call.args, call.result)
       /\ \A i \in DOMAIN call.result :
             i < Len(call.result) => call.result[i][2] > VSIZE_BIN_WIDTH
       /\ call.args # << >> => call.result # << >> /\ call.result[Len(call.result)][2] > 0

\* a histogram of two bins: the first is wide, the last one is not
C31_Witness ==
    /\ call.fn = "make_fee_histogram"
    /\ Len(call.result) = 2
    /\ call.result[1][2] > VSIZE_BIN_WIDTH
    /\ call.result[2][2] < VSIZE_BIN_WIDTH

(***************************************************************************)
(* compute_assets: the length of the result and termination                *)
(***************************************************************************)
\* C32: compute_assets returns one entry per output of the transaction, for every marker
\* index and every list of quantities no longer than outputs - 1, lists shorter than the
\* marker index included
C32_OneEntryPerOutput ==
    assets.status = "ok" => Len(assets.result) = assets.outputs

\* C33: compute_assets returns (or panics) for every input that passes its two assertions,
\* also when the transfer outputs need more asset units than the previous outputs carry
C33_ComputeAssetsTerminates ==
    assets.status # "loops"

(***************************************************************************)
(* update_stats as a function of the list it is given                      *)
(***************************************************************************)
MaxHistories == 3

\* the history entries of a list: funding and spending entries of two transactions
HistoryInfos ==
    [tag : {Funding, Spending}, txid : {T1, T2}, color_id : {DefaultColor, Color1},
     value : {1, 2}]

\* update_stats(HashMap::new(), &histories): every transaction has one confirming block,
\* or none (NullHash) when it is a mempool transaction
UpdateStats ==
    /\ call.fn = "none"
    /\ \E blockid \in [{T1, T2} -> {NullHash, BlkA, BlkP1}],
          infos \in SeqsUpTo(HistoryInfos, MaxHistories) :
          LET histories == [i \in DOMAIN infos |->
                               [txinfo |-> infos[i], blockhash |-> blockid[infos[i].txid]]]
          IN call' = [fn |-> "update_stats", args |-> histories,
                      result |-> update_stats(<< >>, histories)]
    /\ UNCHANGED <<storeVars, updateVars, queryVars, countVars, light_mode, base, mempool,
                   mlast, conn, rpc, assets, ledger, stats_calls>>

NextStats == UpdateStats

SpecStats == Init /\ [][NextStats]_vars

\* the entries of one color and one kind
EntriesOf(histories, color_id, tag) ==
    {i \in DOMAIN histories : /\ histories[i].txinfo.color_id = color_id
                              /\ histories[i].txinfo.tag = tag}

RECURSIVE ValueSum(_, _)
ValueSum(histories, I) ==
    IF I = {} THEN 0
    ELSE LET i == CHOOSE x \in I : TRUE
         IN histories[i].txinfo.value + ValueSum(histories, I \ {i})

\* the statistics of one color counted from the list
CountedStats(histories, color_id) ==
    LET funded == EntriesOf(histories, color_id, Funding)
        spent == EntriesOf(histories, color_id, Spending)
    IN [tx_count |-> Cardinality({histories[i].txinfo.txid : i \in funded \cup spent}),
        funded_txo_count |-> Cardinality(funded), spent_txo_count |-> Cardinality(spent),
        funded_txo_sum |-> ValueSum(histories, funded),
        spent_txo_sum |-> ValueSum(histories, spent)]

\* C34: for every list of history entries in which each txid belongs to one block,
\* update_stats started from empty statistics returns, per color id, the number of distinct
\* txids, the count and value sum of the Funding entries and of the Spending entries, and
\* the block hash of the last entry (none for an empty list or for mempool entries)
C34_UpdateStatsCounts ==
    call.fn = "update_stats" =>
        LET histories == call.args
            colors == {histories[i].txinfo.color_id : i \in DOMAIN histories}
        IN /\ DOMAIN call.result.stats = colors
           /\ \A c \in colors : call.result.stats[c] = CountedStats(histories, c)
           /\ call.result.lastblock = IF histories = << >> THEN NullHash
                                      ELSE histories[Len(histories)].blockhash

(***************************************************************************)
(* create_history_info as a function of the two amounts                    *)
(***************************************************************************)
MaxAmount == 10

\* colored_tx_history calls create_history_info with the amounts of one color id among the
\* previous outputs and among the outputs; an output of value 0 gives the amount 0
CreateHistoryInfo ==
    /\ call.fn = "none"
    /\ \E prev_amount \in 0..MaxAmount, amount \in 0..MaxAmount :
          call' = [fn |-> "create_history_info", args |-> <<T1, prev_amount, amount>>,
                   result |-> create_history_info(T1, prev_amount, amount)]
    /\ UNCHANGED <<storeVars, updateVars, queryVars, countVars, light_mode, base, mempool,
                   mlast, conn, rpc, assets, ledger, stats_calls>>

NextHistoryInfo == CreateHistoryInfo

SpecHistoryInfo == Init /\ [][NextHistoryInfo]_vars

\* the values of the emitted entries of one kind
ValuesOf(histories, tag) ==
    {histories[i].value : i \in {j \in DOMAIN histories : histories[j].tag = tag}}

Min(a, b) == IF a < b THEN a ELSE b

\* C35: for every pair (prev_amount, amount), create_history_info emits an Issuing entry of
\* value amount - prev_amount exactly when amount > prev_amount, a Burning entry of value
\* prev_amount - amount exactly when amount < prev_amount, a Transferring entry of value
\* min(prev_amount, amount) exactly when that minimum is greater than 0, and no entry of
\* value 0
C35_HistoryInfoByAmounts ==
    call.fn = "create_history_info" =>
        LET prev_amount == call.args[2]
            amount == call.args[3]
            histories == call.result
        IN /\ ValuesOf(histories, "Issuing") =
                  IF amount > prev_amount THEN {amount - prev_amount} ELSE {}
           /\ ValuesOf(histories, "Burning") =
                  IF amount < prev_amount THEN {prev_amount - amount} ELSE {}
           /\ ValuesOf(histories, "Transferring") =
                  IF Min(prev_amount, amount) > 0 THEN {Min(prev_amount, amount)} ELSE {}
           /\ \A i \in DOMAIN histories : histories[i].value # 0

(***************************************************************************)
(* get_tx_fee as a function of the transaction and its previous outputs    *)
(***************************************************************************)
MaxFeeTxOuts == 2
MaxValue == 2

\* the outputs and previous outputs of a transaction: uncolored or colored, value 0..MaxValue
FeeTxOuts == {TxOut(v, Spk(c, 1)) : v \in 0..MaxValue, c \in {DefaultColor, Color1}}

\* total_in - total_out on u64: the difference, or, when total_out is the larger, what the
\* build makes of the overflow: a panic (overflow checks on) or the difference modulo 2^64
\* (overflow checks off), written here as the negative number it is congruent to
u64_sub(total_in, total_out) ==
    IF total_in >= total_out
    THEN {[status |-> "ok", fee |-> total_in - total_out]}
    ELSE {[status |-> "panic", fee |-> 0],
          [status |-> "wrapped", fee |-> total_in - total_out]}

\* get_tx_fee, every outcome the build can produce
get_tx_fee_u64(is_coin_base, prevouts, output) ==
    IF is_coin_base THEN {[status |-> "ok", fee |-> 0]}
    ELSE u64_sub(get_amounts(prevouts, DefaultColor), get_amounts(output, DefaultColor))

\* TxFeeInfo::new in Mempool::add: the transaction comes from the node, prevouts holds the
\* previous output of every input (none for the input of a coinbase)
GetTxFee ==
    /\ call.fn = "none"
    /\ \E is_coin_base \in BOOLEAN,
          prevouts \in SeqsUpTo(FeeTxOuts, MaxFeeTxOuts),
          output \in SeqsUpTo(FeeTxOuts, MaxFeeTxOuts) :
          /\ is_coin_base => prevouts = << >>
          /\ \E fee \in get_tx_fee_u64(is_coin_base, prevouts, output) :
                call' = [fn |-> "get_tx_fee", args |-> <<is_coin_base, prevouts, output>>,
                         result |-> fee]
    /\ UNCHANGED <<storeVars, updateVars, queryVars, countVars, light_mode, base, mempool,
                   mlast, conn, rpc, assets, ledger, stats_calls>>

NextTxFee == GetTxFee

SpecTxFee == Init /\ [][NextTxFee]_vars

\* the sum of the values of the uncolored outputs of a list
RECURSIVE UncoloredValue(_)
UncoloredValue(outs) ==
    IF outs = << >> THEN 0
    ELSE (IF IsColored(Head(outs).script_pubkey) THEN 0 ELSE Head(outs).value)
         + UncoloredValue(Tail(outs))

\* C36: get_tx_fee returns 0 for a coinbase and otherwise the sum of the values of the
\* uncolored previous outputs minus the sum of the values of the uncolored outputs, whatever
\* the values of the colored ones, and the subtraction does not underflow
C36_FeeIsUncoloredDifference ==
    call.fn = "get_tx_fee" =>
        /\ call.result.status = "ok"
        /\ call.result.fee = IF call.args[1] THEN 0
                             ELSE UncoloredValue(call.args[2]) - UncoloredValue(call.args[3])

(***************************************************************************)
(* The two phases of update and the done markers                           *)
(***************************************************************************)
\* the new headers whose block has no done marker (D row) in a database
WithoutDoneMarker(entries, db) == SelectSeq(entries, LAMBDA e : e.hash \notin db.D)

\* C37: update puts in phase 1 exactly the new headers that have no done marker in txstore
\* and in phase 2 exactly those that have no done marker in history, so that a block that
\* was added or indexed once is not added or indexed again by a later update of the process
C37_PhasesFollowDoneMarkers ==
    /\ pc = "fetch_add" => to_add = WithoutDoneMarker(new_headers, txstore_db)
    /\ pc = "fetch_index" => to_index = WithoutDoneMarker(new_headers, history_db)

(***************************************************************************)
(* Query: a transaction is reported once                                   *)
(***************************************************************************)
\* C38: in every state the main loop reaches, also between an Indexer.update that applied a
\* block and the Mempool.update that removes its transactions, Query.history_txids returns
\* every txid at most once and Query.utxo every outpoint at most once: nothing is reported
\* both as confirmed and as unconfirmed
C38_ReportedOnce ==
    (pc = "idle" /\ result = "ok") =>
        \A S \in ScriptHashes :
            LET txids == Query_history_txids(txstore_db, history_db, indexed_headers, mempool,
                                             S, utxos_limit)
                r == Query_utxo(txstore_db, history_db, cache_db, indexed_headers, mempool, S,
                                utxos_limit)
            IN /\ \A i, j \in DOMAIN txids : txids[i][1] = txids[j][1] => i = j
               /\ r.status = "ok" =>
                     \A u, v \in r.utxos : (u.txid = v.txid /\ u.vout = v.vout) => u = v

(***************************************************************************)
(* Mempool: what is stored is indexed                                      *)
(***************************************************************************)
\* C39: after every Mempool.update and add_by_txid, also one whose lookup of the previous
\* outputs failed, txstore, feeinfo and overviews have the same keys, and every transaction
\* of txstore has its funding and spending entries in history and its inputs in edges
C39_StoredIsIndexed ==
    mlast.op \in {"update", "add_by_txid"} =>
        /\ {f.txid : f \in mempool.feeinfo} = mempool.txstore
        /\ {o.txid : o \in mempool.overviews} = mempool.txstore
        /\ \A t \in mempool.txstore :
              /\ \A S \in ScriptHashes :
                    Range(MempoolFunding(t, S) \o MempoolSpending(t, S))
                        \subseteq Range(mempool.history[S])
              /\ \A i \in DOMAIN Tx(t).input :
                    \E e \in mempool.edges : e.outpoint = Tx(t).input[i]

(***************************************************************************)
(* Client threads inside ChainQuery::stats                                 *)
(***************************************************************************)
\* stats up to its cache writes: the scan of the A rows and stats_delta. todo holds the rows
\* the loop over newstats will write (a row that is in the cache as it stands is left out:
\* writing it changes nothing); scratch remembers the fold of the whole history from empty
\* statistics at this moment
StatsScan(c, scripthash) ==
    /\ Alive
    /\ result = "ok"
    /\ stats_calls[c].pc = "idle"
    /\ LET r == stats(txstore_db, history_db, cache_db, indexed_headers, scripthash)
       IN stats_calls' =
              [stats_calls EXCEPT ![c] =
                  [pc |-> "write", scripthash |-> scripthash, newstats |-> r.stats,
                   todo |-> r.cache_db.A \ cache_db.A,
                   scratch |-> stats_delta(txstore_db, history_db, indexed_headers,
                                           scripthash, << >>, 0).stats]]
    /\ UNCHANGED <<storeVars, updateVars, queryVars, countVars, light_mode, base, mempool,
                   mlast, conn, rpc, assets, ledger, call>>

\* stats: one iteration of 'for (key, stat) in &newstats', a write of one row; the order is
\* that of the HashMap
StatsWrite(c) ==
    /\ stats_calls[c].pc = "write"
    /\ \E row \in stats_calls[c].todo :
          /\ cache_db' = PutStatsCache(cache_db, row.scripthash, row.color_id :> row.stats,
                                       row.blockhash)
          /\ stats_calls' = [stats_calls EXCEPT ![c].todo = @ \ {row}]
    /\ UNCHANGED <<storeVars, updateVars, q, countVars, light_mode, base, mempool,
                   mlast, conn, rpc, assets, ledger, call>>

\* stats returns newstats
StatsReturn(c) ==
    /\ stats_calls[c].pc = "write"
    /\ stats_calls[c].todo = {}
    /\ stats_calls' = [stats_calls EXCEPT ![c].pc = "done"]
    /\ UNCHANGED <<storeVars, updateVars, queryVars, countVars, light_mode, base, mempool,
                   mlast, conn, rpc, assets, ledger, call>>

\* the main thread updates the index; each client thread calls stats once
NextStatsConc ==
    \/ \E h \in BlockHashes : Indexer_update(h)
    \/ \E c \in Clients, S \in ScriptHashes : StatsScan(c, S)
    \/ \E c \in Clients : StatsWrite(c)
    \/ \E c \in Clients : StatsReturn(c)

SpecStatsConc == Init /\ [][NextStatsConc]_vars

\* the statistics of one color folded from empty statistics over the best chain up to the
\* block hash (DefaultStats when the chain up to it has no entry of the color)
FoldUpTo(scripthash, color_id, blockhash) ==
    LET height == header_by_blockhash(indexed_headers, blockhash).height
        fold == stats_delta(txstore_db, history_db, SubSeq(indexed_headers, 1, height + 1),
                            scripthash, << >>, 0).stats
    IN IF color_id \in DOMAIN fold THEN fold[color_id] ELSE DefaultStats

\* C40: under every interleaving of two or more stats calls for a script hash, each call
\* returns the statistics of a fold from empty statistics, and every A row of the cache whose
\* block is in the best chain holds the statistics of such a fold up to its block hash
C40_ConcurrentStatsAreFolds ==
    /\ \A c \in Clients :
          stats_calls[c].pc = "done" => stats_calls[c].newstats = stats_calls[c].scratch
    /\ \A r \in cache_db.A :
          header_by_blockhash(indexed_headers, r.blockhash) # NoEntry
              => r.stats = FoldUpTo(r.scripthash, r.color_id, r.blockhash)

====
